---- MODULE Spec2Model ----
(***************************************************************************)
(* A model of the audio transport engine of src/src/AudioIO.cpp: the       *)
(* scrub work queue shared by the UI, buffering and hardware-callback      *)
(* threads, the start/stop handshake between the main thread, the          *)
(* buffering thread, the MIDI thread and the hardware callback, and the    *)
(* playback schedule's track time.                                         *)
(*                                                                         *)
(* Times are integers: clock values and track times in milliseconds,       *)
(* positions and durations in samples.  A speed is a pair <<n, d>>, the    *)
(* rational n/d with d > 0.  Arithmetic on doubles is modelled as exact    *)
(* rational arithmetic; the conversions to integers keep their rounding    *)
(* (lrint: to nearest, ties to even; casts: towards zero).                 *)
(***************************************************************************)
EXTENDS Integers, Sequences, FiniteSets, TLC

(***************************************************************************)
(* Bounds of the model                                                     *)
(***************************************************************************)
\* the wall clock (milliseconds) stops advancing here
MaxClock == 4
\* the largest frame count of one hardware callback
MaxFrames == 1
\* StartStream is called while fewer tokens than this have been issued
MaxStarts == 2
\* the largest time the UI passes as t0 or t1 (the unit of the times of the
\* schedule is a tenth of a second)
MaxTime == 5
\* the longest buffer period of a hardware callback
MaxElapsed == 2
\* the largest seek the UI asks for (either direction)
MaxSeek == 4
\* callbacks keep coming while the buffer periods since the start or the
\* last seek sum to no more than this
MaxSum == 13
\* playbackBufferSize, the capacity of a playback ring buffer (frames)
MaxPlaybackBuffer == 13
\* mPlaybackSamplesToCopy, the most that one turn of the loop of FillBuffers
\* produces (frames)
MaxSamplesToCopy == 2
\* the largest framesPerBuffer of a hardware callback of a play
MaxFramesPerBuffer == 2
\* the longest sample period 1 / mRate, in the unit of the times of the
\* schedule
MaxPeriod == 2
\* the capture tracks of a recording
NumCapture == 2
\* the largest total latency correction either way, and the longest
\* recording, in half sample periods
MaxCorrection == 4
MaxDuration == 6
\* the capacity of a capture ring buffer (samples)
MaxCaptureBuffer == 3
\* mMinCaptureSecsToCopy, as samples
MinCaptureToCopy == 2
\* the frames of all the callbacks of a stream that pauses, and the largest
\* difference of the system clock and the audio clock a callback finds
MaxNumFrames == 2
MaxClockOffset == 1
\* the MIDI stream plays while the callbacks have delivered no more frames
\* than this
MaxMidiFrames == 5
\* SetPaused pauses a stream of MIDI no more often than this
MaxPauses == 2
\* the largest of the times of a play of MIDI (frames)
MaxMidiTime == 3
\* the capacity of the ring buffer, the largest count of a call and the
\* samples the producer offers in all
RingCapacity == 3
MaxRingCount == 3
MaxRingTotal == 6
\* the callback finds a seek pending no more often than this
MaxSeeks == 2
\* the callbacks of a play that seeks keep coming while the buffer periods
\* since the start or the last seek sum to no more than this
MaxSeekSum == 3
\* callbacks keep coming while the track time is no further than this from
\* the range of the schedule (the ring buffers drain after the end)
MaxOverrun == 2
\* the playback tracks of a pass of FillBuffers taken track by track, the
\* most frames of a turn of its do-loop and the most it puts into a ring
\* buffer in all
NumFillTracks == 2
MaxFillFrames == 2
MaxFillTotal == 4
\* the ALSA timing model: the most frames of a callback, the callbacks come
\* while they have delivered no more frames than MaxAlsaFrames, and the
\* sample rate (frames a second)
MaxAlsaBuffer == 2
MaxAlsaFrames == 4
AlsaRate == 2
\* the units of time of the ALSA timing model in a sample period: the unit
\* is the drift allowed for one frame, 0.0002 sample periods
FramePeriod == 5000
\* the seconds StartPortAudioStream adds to the system time for the offset
ResetSeconds == 1000

(***************************************************************************)
(* Arithmetic                                                              *)
(***************************************************************************)
Abs(x) == IF x < 0 THEN -x ELSE x

Min(a, b) == IF a <= b THEN a ELSE b

Max(a, b) == IF a >= b THEN a ELSE b

\* lrint(n/d), d > 0: round to nearest, ties to even
lrint(n, d) ==
   LET q == n \div d
       r == n % d
   IN  IF 2 * r < d THEN q
       ELSE IF 2 * r > d THEN q + 1
       ELSE IF q % 2 = 0 THEN q ELSE q + 1

\* conversion of the double n/d (d > 0) to an integer type: towards zero
Trunc(n, d) == IF n >= 0 THEN n \div d ELSE -((-n) \div d)

\* comparison of speeds
SpeedLess(a, b) == a[1] * b[2] < b[1] * a[2]

SpeedMin(a, b) == IF SpeedLess(b, a) THEN b ELSE a

(***************************************************************************)
(* The scrub queue: struct AudioIO::ScrubQueue                             *)
(***************************************************************************)
\* enum { Size = 10 }
Size == 10

\* AllNotesOff: for (int chan = 0; chan < 16; chan++)
NumChannels == 16

\* StartStream: if(captureBufferSize < 100), if(playbackBufferSize < 100 ||
\* playbackMixBufferSize < 100)
MinBufferSize == 100

\* FillMidiBuffers: const double loopDelay = 0.220, in frames of the model
loopDelay == 3

\* sample rates of the stream (samples per second)
Rates == {2000}

\* ScrubbingOptions bundles the UI passes to StartStream and EnqueueScrub.
\* minAllowed is ScrubbingOptions::MinAllowedScrubSpeed().
ScrubOptionsSet ==
   { [adjustStart |-> FALSE, enqueueBySpeed |-> FALSE,
      minSpeed |-> <<0, 1>>, maxSpeed |-> <<4, 1>>, minAllowed |-> <<1, 100>>,
      minSample |-> 0, maxSample |-> 7, minStutter |-> 0],
     [adjustStart |-> FALSE, enqueueBySpeed |-> FALSE,
      minSpeed |-> <<1, 2>>, maxSpeed |-> <<3, 2>>, minAllowed |-> <<1, 100>>,
      minSample |-> 0, maxSample |-> 7, minStutter |-> 1],
     [adjustStart |-> TRUE, enqueueBySpeed |-> FALSE,
      minSpeed |-> <<1, 100>>, maxSpeed |-> <<2, 1>>, minAllowed |-> <<1, 100>>,
      minSample |-> 0, maxSample |-> 7, minStutter |-> 1] }

\* the track times (milliseconds) the UI may hand to StartStream and
\* EnqueueScrub in a scrub with the options o: the start of the project, or
\* a position inside it, and a position beyond its end
ScrubTargets(o) ==
   IF o.adjustStart THEN {3, 40}
   ELSE IF o.minSpeed[1] = 0 THEN {40} ELSE {0}

VARIABLES
   \* ScrubQueue fields
   mEntries, mTrailingIdx, mMiddleIdx, mLeadingIdx, mRate,
   mLastScrubTimeMillis, mLastTransformerTimeMillis,
   mCredit, mDebt, mMaxDebt, mNudged,
   \* the options of the running scrub
   scrubOptions,
   \* ::wxGetLocalTimeMillis()
   now,
   \* the buffering thread's position with respect to the queue's mutex:
   \* "out" (not holding it), "holding" (between two calls of Transformer in
   \* one pass of FillBuffers), "finishing" (holding it after Transformer
   \* reported no work), "waitCheck" and "waitNoCheck" (inside
   \* mAvailable.Wait(), with checkDebt true and false)
   transformerAt,
   \* what the last operation on the queue returned, when it was Producer:
   \* its result, whether it found the ring full, the duration it was asked
   \* for, the index of the first entry it wrote and whether the request
   \* implied a speed above options.maxSpeed
   lastCall,
   \* the flags StartStream and StopStream direct the buffering thread with
   mAudioThreadShouldCallFillBuffersOnce, mAudioThreadFillBuffersLoopRunning,
   \* where the main thread is: "idle" (in no call of AudioIO), or at a step
   \* of StartStream ("startOpen", "startAlloc", "startPrime", "startPa") or
   \* of StopStream ("stopLock", "stopMeters", "stopAbort", "stopMidi",
   \* "stopOnce", "stopWait", "stopEnd")
   mainAt,
   \* the tracks of the stream: whether there are playback tracks, capture
   \* tracks, scrubbing options and MIDI tracks
   tracks,
   mStreamToken, mNextStreamToken,
   \* the tokens the successful calls of StartStream have returned, in order
   returned,
   \* StopStream has returned and StartStream was not called since
   stopCompleted,
   \* the PortAudio stream: "NULL", or open and "stopped", "active", or
   \* "finished" (the callback returned paComplete or paAbort)
   mPortStreamV19,
   \* mPlaybackBuffers, mPlaybackMixers, mCaptureBuffers, mResample: "none",
   \* "allocated", "releasedByStop" (reset by StopStream), "releasedByCleanup"
   \* (reset by StartStreamCleanup)
   ringBuffers,
   \* the samples of the capture tracks: "none" were captured, or the
   \* callback has put some into the ring buffers ("buffered"), or
   \* FillBuffers has appended some to the tracks ("appended"), or the
   \* tracks were flushed ("flushed")
   captured,
   \* whether Pa_AbortStream of the PortAudio build in use joins the thread of
   \* the callback, however long the callback takes to return; a build that
   \* does not gives up on a callback that is blocked
   abortJoins,
   \* the MIDI stream is open (mMidiStream # NULL), and the flags of its thread
   mMidiStream, mMidiStreamActive,
   mMidiThreadFillBuffersLoopRunning, mMidiThreadFillBuffersLoopActive,
   \* where the buffering thread is in AudioThread::Entry: "top", "test",
   \* "fillOnce" and "fillLoop" (in FillBuffers, called for either flag),
   \* "waitOnce" and "waitLoop" (in FillBuffers, waiting in Transformer),
   \* "bottom"
   audioAt, mAudioThreadFillBuffersLoopActive,
   \* where the hardware callback is: "idle" (not running), "meterIn",
   \* "body", "seekLock", "seekPause", "seekReload", "meterOut"
   callbackAt,
   \* the local `token' of CallbackDoSeek
   seekToken,
   mUpdatingMeters,
   \* a seek is pending (mSeek # 0)
   mSeek,
   mPaused, mUpdateMeters,
   \* the holder of the mutex mSuspendAudioThread: "free", "main", "callback"
   mSuspendAudioThread,
   \* PlaybackSchedule fields (tenths of a second)
   mT0, mT1, mTime, mPlayMode,
   \* the last operation on the schedule: "Init", "TrackTimeUpdate", "Seek",
   \* "Consumer"
   scheduleOp,
   \* the track time StartStream or the last seek has set, and the sum of
   \* the buffer periods TrackTimeUpdate was called with since
   startTime, elapsedSum,
   \* whether the schedule has a time track (mTimeTrack # nullptr)
   mTimeTrack,
   \* where the callback is in TrackTimeUpdate: "idle" (not in it), "solve"
   \* (at the top of the do-loop of the time track), "test" (at the test of
   \* the loop that wraps), "wrap" (in the body of that loop)
   updateAt,
   \* the locals of TrackTimeUpdate: time, realElapsed, foundTotal, total
   localTime, localElapsed, foundTotal, total,
   \* the sample period 1 / mRate of the stream, in the unit of the times of
   \* the schedule
   period,
   \* the frames the playback track has in the range of the schedule, and
   \* those of them its mixer has not yet produced
   trackFrames, mixerLeft,
   \* PlaybackSchedule::mWarpedTime and mWarpedLength
   mWarpedTime, mWarpedLength,
   \* the frames in the playback ring buffer (AvailForGet)
   playAvail,
   \* the frames FillBuffers has put into the playback ring buffer, the
   \* frames the callbacks have taken from it, and the sum of framesPerBuffer
   \* over the callbacks that ran unpaused
   putTotal, drainedTotal, callbackFrames,
   \* some callback has found fewer frames in the ring buffer than it asked
   \* for while FillBuffers had not yet produced the whole of the schedule
   underran,
   \* of the last callback: whether it ran paused, the frames it took from
   \* the ring buffer, what PassIsComplete() gave in it and what it returned
   lastCallback,
   \* mDetectDropouts, mDetectUpstreamDropouts, mLostSamples and the
   \* durations (samples) of mLostCaptureIntervals
   mDetectDropouts, mDetectUpstreamDropouts, mLostSamples,
   mLostCaptureIntervals,
   \* RecordingSchedule: TotalCorrection(), mDuration and mPosition in half
   \* sample periods, and mLatencyCorrected
   totalCorrection, mDuration, mPosition, mLatencyCorrected,
   \* mRecordingException is not zero
   mRecordingException,
   \* for each capture track: the samples in its ring buffer, and the
   \* silence and the captured samples appended to the track and the
   \* samples discarded from its ring buffer since the recording began
   captureAvail, silence, appended, discarded,
   \* what has happened out of order to some track: silence appended after
   \* captured samples, captured samples appended while samples were still
   \* to discard, samples discarded after the latency was corrected
   outOfOrder,
   \* whether a storage exception was caught, in the pass StartStream asks
   \* for ("priming") or later ("running"), and neither StopStream nor a
   \* later call of StartStream has returned since; else "none"
   caught,
   \* of the last pass of FillBuffers: the recording exception at its entry,
   \* whether it worked on the capture tracks, the track whose Append threw
   \* (0: none), the samples commonly available and the samples to append
   \* to a track, and the samples it took from the ring buffer of each
   \* track and appended to each track
   lastPass,
   \* of the last callback of the recording: the frames asked for, the
   \* frames put into each capture ring buffer, the lost intervals and the
   \* lost samples it added
   lastCapture,
   \* mNumFrames and mNumPauseFrames, the frames of all callbacks and of the
   \* callbacks that found the stream paused, and mSystemMinusAudioTime, the
   \* offset of the system clock from the audio clock
   mNumFrames, mNumPauseFrames, mSystemMinusAudioTime,
   \* the last call of a function of the playback schedule by a thread that
   \* reads it: the function ("none": none yet), its argument and its result
   callOp, callArg, callResult,
   \* the one note track of the stream: its notes in the order of their
   \* times, and whether it is heard (its channels visible, not muted or
   \* silenced by a solo elsewhere)
   noteTrack, trackAudible,
   \* the MIDI output synchronizer: the iterator over the events of the
   \* track, the event to send next with its time and whether it is a
   \* note-on, the loop passes, the latch of the pause, the note-ons not yet
   \* paired and the signal that the output is complete
   mIterator, mNextEvent, mNextEventTime, mNextIsNoteOn, mMidiLoopPasses,
   mMidiPaused, mPendingNotesOff, mMidiOutputComplete,
   \* the messages written to the MIDI stream, in the order of the writes,
   \* and the number of times SetPaused has paused a running stream
   midiOut, pauseCount,
   \* StartStream: the rate of the stream, the sizes it allocates the buffers
   \* with (seconds are pairs <<n, d>>, n/d), the number of times the
   \* allocation has failed and what StartStream returned (-1: nothing yet)
   streamRate, mPlaybackRingBufferSecs, mPlaybackSamplesToCopy,
   mCaptureRingBufferSecs, mMinCaptureSecsToCopy, allocFailures, startReturn,
   \* a ring buffer: its read and its write cursor, where the producer's
   \* and the consumer's calls are, the totals the calls have returned and
   \* what the last call of each side was given and returned
   readCursor, writeCursor, putAt, getAt, ringPut, ringGot, lastPut, lastGet,
   \* CallbackDoSeek: the track time and the seek it read, how often the
   \* callback has entered it, the passes of FillBuffers since it discarded
   \* the ring buffers, and what it returned ("none": it has not)
   doSeek,
   \* where the MIDI thread is in a turn of the loop of MidiThread::Entry:
   \* "sleep", "test" (the loop is marked active), "fill" (the tests have
   \* passed and FillMidiBuffers is to run), "clear" (the loop is to be
   \* marked inactive)
   midiAt,
   \* a callback has run since the audio stream was last opened
   callbackRan,
   \* for each playback track, the samples FillBuffers has put into its
   \* ring buffer; and of the last turn of the do-loop of FillBuffers: the
   \* frames asked of the mixers, what each mixer produced and what was put
   \* into each ring buffer
   ringWritten, lastTurn,
   \* SystemTime() at the last callback, and mAudioFramesPerBuffer, the
   \* frames of the callback before (the unit of time of the ALSA timing
   \* model is the drift of one frame, 0.0002 sample periods)
   systemTime, mAudioFramesPerBuffer,
   \* StartStream, having found a stream open and called StopStream, waits
   \* for the handle of the stream to be cleared
   handleWait

loopFlags ==
   << mAudioThreadShouldCallFillBuffersOnce,
      mAudioThreadFillBuffersLoopRunning >>

\* the queue but for mNudged
queueVars ==
   << mEntries, mTrailingIdx, mMiddleIdx, mLeadingIdx, mRate,
      mLastScrubTimeMillis, mLastTransformerTimeMillis,
      mCredit, mDebt, mMaxDebt, scrubOptions, now,
      transformerAt, lastCall >>

scrubVars == << queueVars, mNudged >>

tokenVars == << mStreamToken, mNextStreamToken, returned, stopCompleted >>

streamVars ==
   << mPortStreamV19, ringBuffers, captured, tracks, abortJoins >>

midiVars ==
   << mMidiStream, mMidiStreamActive, mMidiThreadFillBuffersLoopRunning,
      mMidiThreadFillBuffersLoopActive >>

audioVars == << audioAt, mAudioThreadFillBuffersLoopActive >>

callbackVars == << callbackAt, seekToken, mUpdatingMeters >>

uiVars == << mSeek, mPaused, mUpdateMeters >>

transportVars ==
   << mainAt, mSuspendAudioThread, tokenVars, streamVars, midiVars,
      audioVars, callbackVars, uiVars >>

scheduleVars ==
   << mT0, mT1, mTime, mPlayMode, scheduleOp, startTime, elapsedSum >>

updateVars ==
   << mTimeTrack, updateAt, localTime, localElapsed, foundTotal, total >>

playVars ==
   << period, trackFrames, mixerLeft, mWarpedTime, mWarpedLength, playAvail,
      putTotal, drainedTotal, callbackFrames, underran, lastCallback >>

recVars ==
   << mDetectDropouts, mDetectUpstreamDropouts, mLostSamples,
      mLostCaptureIntervals, totalCorrection, mDuration, mPosition,
      mLatencyCorrected, mRecordingException, captureAvail, silence,
      appended, discarded, outOfOrder, caught, lastPass, lastCapture >>

pauseVars == << mNumFrames, mNumPauseFrames, mSystemMinusAudioTime >>

callVars == << callOp, callArg, callResult >>

\* the parts of the state that only one part of the program works on
midiOutVars ==
   << noteTrack, trackAudible, mIterator, mNextEvent, mNextEventTime,
      mNextIsNoteOn, mMidiLoopPasses, mMidiPaused, mPendingNotesOff,
      mMidiOutputComplete, midiOut, pauseCount >>

allocVars ==
   << streamRate, mPlaybackRingBufferSecs, mPlaybackSamplesToCopy,
      mCaptureRingBufferSecs, mMinCaptureSecsToCopy, allocFailures,
      startReturn >>

ringVars ==
   << readCursor, writeCursor, putAt, getAt, ringPut, ringGot, lastPut,
      lastGet >>

midiRunVars == << midiAt, callbackRan >>

fillVars == << ringWritten, lastTurn >>

clockVars == << systemTime, mAudioFramesPerBuffer >>

otherVars ==
   << callVars, midiOutVars, allocVars, ringVars, doSeek, midiRunVars,
      fillVars, clockVars, handleWait >>

workVars == << updateVars, playVars, recVars, pauseVars, otherVars >>

\* Entry::Entry()
NewEntry == [mS0 |-> 0, mS1 |-> 0, mGoal |-> 0, mDuration |-> 0, mPlayed |-> 0]

Clamp(o, s) == Max(o.minSample, Min(o.maxSample, s))

\* Entry::Init, first part: the speed the request implies is capped at
\* maxSpeed, or the minimum is raised to it while playback chases the goal
InitGoal(hasPrevious, previous, s0, s1, duration, o) ==
   LET speed == << Abs(s1 - s0), duration >>
       capped == ~o.adjustStart /\ SpeedLess(o.maxSpeed, speed)
       chasing == /\ ~capped
                  /\ ~o.adjustStart
                  /\ hasPrevious
                  /\ previous.mGoal >= 0
                  /\ previous.mGoal = s1
   IN  [speed |-> IF capped THEN o.maxSpeed ELSE speed,
        minSpeed |-> IF chasing THEN o.maxSpeed
                     ELSE SpeedMin(o.minSpeed, o.maxSpeed),
        mGoal |-> IF capped \/ chasing THEN s1 ELSE -1,
        adjustedSpeed |-> capped \/ chasing]

\* Entry::Init: the duration is trimmed for a speed below the minimum, and a
\* speed below MinAllowedScrubSpeed() asks for silence
InitTrim(g, duration, o) ==
   LET slow == SpeedLess(g.speed, g.minSpeed)
       speed == IF slow THEN g.minSpeed ELSE g.speed
       tooSlow == SpeedLess(speed, o.minAllowed)
   IN  [speed |-> IF tooSlow THEN << 0, 1 >> ELSE speed,
        duration |-> IF slow
                     THEN Max(0, lrint(g.speed[1] * duration * g.minSpeed[2],
                                       g.speed[2] * g.minSpeed[1]))
                     ELSE duration,
        mGoal |-> g.mGoal,
        adjustedSpeed |-> g.adjustedSpeed \/ slow \/ tooSlow]

\* Entry::Init: s1 follows the change of speed
InitEnd(t, s0, s1, o) ==
   LET diff == lrint(t.speed[1] * t.duration, t.speed[2])
   IN  [speed |-> t.speed, duration |-> t.duration, mGoal |-> t.mGoal,
        s1 |-> IF t.adjustedSpeed /\ ~o.adjustStart
               THEN (IF s0 < s1 THEN s0 + diff ELSE s0 - diff)
               ELSE s1]

\* Entry::Init: s1 is kept in the bounds of the project and the duration
\* shortened with it; a stutter that is too short is abandoned
InitBounds(n, s0, o) ==
   LET newS1 == Clamp(o, n.s1)
       newDuration ==
          IF n.s1 # s0 /\ n.s1 # newS1
          THEN Max(0, Trunc(n.duration * (newS1 - s0)
                               * (IF n.s1 < s0 THEN -1 ELSE 1),
                            Abs(n.s1 - s0)))
          ELSE n.duration
       abandon == n.s1 # s0 /\ o.adjustStart /\ newDuration < o.minStutter
       silent == n.s1 # s0 /\ ~abandon /\ newDuration = 0
       shorten == n.s1 # s0 /\ ~abandon /\ ~silent /\ n.s1 # newS1
   IN  [speed |-> n.speed, mGoal |-> n.mGoal, abandon |-> abandon,
        silent |-> silent,
        s1 |-> IF silent THEN s0 ELSE IF shorten THEN newS1 ELSE n.s1,
        duration |-> IF shorten THEN newDuration ELSE n.duration,
        trimmed |-> n.duration]

\* Entry::Init, last part: s0 is moved when this is seeking, and the fields
\* are stored. Gives [success, entry, duration (the in/out parameter)].
InitStore(b, e, s0, o) ==
   LET sp == SpeedMin(o.maxSpeed, b.speed)
       diff == lrint(sp[1] * b.duration, sp[2])
   IN  IF b.abandon
       THEN [success |-> FALSE, entry |-> [e EXCEPT !.mGoal = b.mGoal],
             duration |-> b.trimmed]
       ELSE [success |-> TRUE,
             entry |-> [mS0 |-> IF o.adjustStart /\ ~b.silent
                                THEN (IF s0 < b.s1 THEN b.s1 - diff
                                      ELSE b.s1 + diff)
                                ELSE s0,
                        mS1 |-> b.s1, mGoal |-> b.mGoal,
                        mDuration |-> b.duration, mPlayed |-> 0],
             duration |-> b.duration]

\* Entry::Init: the entry e is initialised from the interval s0..s1 of the
\* given duration; previous is the entry before it when hasPrevious, else
\* the pointer is null.
EntryInit(e, hasPrevious, previous, s0, s1, duration, o) ==
   CHOOSE r \in
      { InitStore(b, e, s0, o) :
           b \in { InitBounds(n, s0, o) :
              n \in { InitEnd(t, s0, s1, o) :
                 t \in { InitTrim(g, duration, o) :
                    g \in { InitGoal(hasPrevious, previous, s0, s1,
                                     duration, o) } } } } } : TRUE

\* Entry::InitSilent
InitSilent(previous, duration) ==
   [mGoal |-> previous.mGoal, mS0 |-> previous.mS1, mS1 |-> previous.mS1,
    mPlayed |-> 0, mDuration |-> duration]

\* struct Duration: the samples of real time elapsed since the last request
DurationOf(rate, clockTime, last) == Trunc(rate * (clockTime - last), 1000)

Prev(i) == (i + Size - 1) % Size

Next1(i) == (i + 1) % Size

\* lastCall after an operation other than Producer
NoCall == [op |-> "none", result |-> FALSE, full |-> FALSE, orig |-> 0,
           first |-> 0, fast |-> FALSE]

\* ScrubQueue::ScrubQueue, called by StartStream with the schedule's mT0, mT1
\* (milliseconds), the clock value the UI took, the rate and the options
ScrubQueueInit(t0, t1, startClockMillis, rate, o) ==
   LET s0 == Clamp(o, lrint(t0 * rate, 1000))
       s1 == lrint(t1 * rate, 1000)
       dd == DurationOf(rate, now, startClockMillis)
       actualDuration == Max(1, dd)
       r == EntryInit(NewEntry, FALSE, NewEntry, s0, s1, actualDuration, o)
       first == [NewEntry EXCEPT !.mS0 = s0, !.mS1 = s0,
                                 !.mPlayed = 1, !.mDuration = 1]
   IN  /\ mEntries = [i \in 0 .. Size - 1 |->
                        IF i = 0 THEN first ELSE IF i = 1 THEN r.entry
                        ELSE NewEntry]
       /\ mTrailingIdx = 0
       /\ mMiddleIdx = 1
       /\ mLeadingIdx = IF r.success THEN 2 ELSE 1
       /\ mRate = rate
       /\ mLastScrubTimeMillis = IF r.success THEN now ELSE startClockMillis
       /\ mLastTransformerTimeMillis = -1
       /\ mCredit = 0
       /\ mDebt = 0
       /\ mMaxDebt = 2 * o.minStutter
       /\ mNudged = FALSE
       /\ scrubOptions = o

\* the mutex mUpdating is free for the UI thread and the hardware callback
MutexFree == transformerAt \notin {"holding", "finishing"}

\* a Producer that never finds the ring full
HasRoomAlways(leading) == TRUE

\* the test of Producer that the ring has room for one more entry
HasRoomAfter(leading) == Next1(leading) # mTrailingIdx

\* a Producer that reports success for a request it dropped
QueueFullAccepted == TRUE

\* what Producer returns when it finds the ring full
QueueFullResult == FALSE

\* a Producer that accepts a request for no time at all
DurationNotNegative(origDuration) == ~(origDuration < 0)

\* the test of Producer on the duration the request asks for
DurationAccepted(origDuration) == ~(origDuration <= 0)

\* ScrubQueue::Producer; clockTime is what ::wxGetLocalTimeMillis() returns to
\* its Duration object
Producer(end, clockTime) ==
   LET o == scrubOptions
       next == Next1(mLeadingIdx)
       previous == mEntries[Prev(mLeadingIdx)]
       s0 == previous.mS1
       origDuration == DurationOf(mRate, clockTime, mLastScrubTimeMillis)
       s1 == IF o.enqueueBySpeed
             THEN s0 + lrint(origDuration * end[1], end[2])
             ELSE lrint(end * mRate, 1000)
       r == EntryInit(mEntries[mLeadingIdx], TRUE, previous, s0, s1,
                      origDuration, o)
       actualDuration == r.duration
       next2 == Next1(next)
       call == [NoCall EXCEPT !.op = "Producer", !.orig = origDuration,
                              !.full = (next = mTrailingIdx),
                              !.first = mLeadingIdx,
                              !.fast = SpeedLess(o.maxSpeed,
                                          << Abs(s1 - s0), origDuration >>)]
   IN  /\ MutexFree
       /\ now' = IF HasRoomAfter(mLeadingIdx) THEN clockTime ELSE now
       /\ IF HasRoomAfter(mLeadingIdx)
          THEN IF ~DurationAccepted(origDuration)
               THEN \* return false; ~Duration stores the clock
                    /\ mLastScrubTimeMillis' = clockTime
                    /\ lastCall' = call
                    /\ UNCHANGED << mEntries, mLeadingIdx >>
               ELSE IF ~r.success
               THEN \* dd.Cancel(); return false
                    /\ mEntries' = [mEntries EXCEPT ![mLeadingIdx] = r.entry]
                    /\ lastCall' = call
                    /\ UNCHANGED << mLeadingIdx, mLastScrubTimeMillis >>
               ELSE IF actualDuration < origDuration /\ HasRoomAfter(next)
               THEN \* Fill up the queue with some silence
                    /\ mEntries' =
                          [mEntries EXCEPT
                             ![mLeadingIdx] = r.entry,
                             ![next] = InitSilent(r.entry,
                                          origDuration - actualDuration)]
                    /\ mLeadingIdx' = next2
                    /\ mLastScrubTimeMillis' = clockTime
                    /\ lastCall' = [call EXCEPT !.result = TRUE]
               ELSE /\ mEntries' = [mEntries EXCEPT ![mLeadingIdx] = r.entry]
                    /\ mLeadingIdx' = next
                    /\ mLastScrubTimeMillis' = clockTime
                    /\ lastCall' = [call EXCEPT !.result = TRUE]
          ELSE \* Queue wasn't long enough
               /\ lastCall' = [call EXCEPT !.result = QueueFullResult]
               /\ UNCHANGED << mEntries, mLeadingIdx, mLastScrubTimeMillis >>
       /\ UNCHANGED << mTrailingIdx, mMiddleIdx, mRate,
                       mLastTransformerTimeMillis, mCredit, mDebt, mMaxDebt,
                       mNudged, scrubOptions, transformerAt >>

\* the values a reading of the clock can give: it does not go backwards
ClockReadings == now .. Min(now + 1, MaxClock)

\* AudioIO::EnqueueScrub, which the UI calls once StartStream has returned
EnqueueScrub ==
   /\ mAudioThreadFillBuffersLoopRunning
   /\ \E end \in ScrubTargets(scrubOptions), clockTime \in ClockReadings :
         Producer(end, clockTime)
   /\ UNCHANGED << loopFlags, transportVars, scheduleVars, workVars >>

\* a Nudge that signals the condition and does not set the flag
NudgeWithoutFlag ==
   /\ MutexFree
   /\ lastCall' = NoCall
   /\ UNCHANGED << mEntries, mTrailingIdx, mMiddleIdx, mLeadingIdx, mRate,
                   mLastScrubTimeMillis, mLastTransformerTimeMillis,
                   mCredit, mDebt, mMaxDebt, scrubOptions, now,
                   transformerAt, mNudged >>

\* ScrubQueue::Nudge
Nudge ==
   /\ MutexFree
   /\ mNudged' = TRUE
   /\ lastCall' = NoCall
   /\ UNCHANGED << mEntries, mTrailingIdx, mMiddleIdx, mLeadingIdx, mRate,
                   mLastScrubTimeMillis, mLastTransformerTimeMillis,
                   mCredit, mDebt, mMaxDebt, scrubOptions, now,
                   transformerAt >>

\* a Transformer that never cancels debt
KeepDebt(entries, middle, debt, toDiscard) ==
   [entries |-> entries, middle |-> middle, debt |-> debt]

\* the loop of Transformer that cancels debt by discarding queued work
RECURSIVE DiscardDebt(_, _, _, _)
DiscardDebt(entries, middle, debt, toDiscard) ==
   IF toDiscard > 0 /\ middle # mLeadingIdx
   THEN LET entry == entries[middle]
            dur == entry.mDuration
        IN  IF toDiscard >= dur
            THEN \* Discard entire queue entry
                 DiscardDebt([entries EXCEPT ![middle].mDuration = 0],
                             Next1(middle), debt - dur, toDiscard - dur)
            ELSE \* Adjust the start time
                 LET adjustment ==
                        Trunc(Abs(entry.mS1 - entry.mS0) * toDiscard, dur)
                     start == IF entry.mS0 <= entry.mS1
                              THEN entry.mS0 + adjustment
                              ELSE entry.mS0 - adjustment
                 IN  [entries |-> [entries EXCEPT
                                     ![middle].mS0 = start,
                                     ![middle].mDuration = dur - toDiscard],
                      middle |-> middle, debt |-> debt - toDiscard]
   ELSE [entries |-> entries, middle |-> middle, debt |-> debt]

\* The body of ScrubQueue::Transformer after its wait
TransformerBody(checkDebt, clockTime) ==
   LET doDebt == /\ checkDebt
                 /\ mLastTransformerTimeMillis >= 0
                 /\ mMiddleIdx # mLeadingIdx
       deficit == Trunc((clockTime - mLastTransformerTimeMillis) * mRate, 1000)
                  - mCredit
       d == IF doDebt
            THEN DiscardDebt(mEntries, mMiddleIdx, mDebt + deficit,
                             mDebt + deficit - mMaxDebt)
            ELSE [entries |-> mEntries, middle |-> mMiddleIdx, debt |-> mDebt]
       credit == IF doDebt THEN 0 ELSE mCredit
       work == d.middle # mLeadingIdx
       entry == d.entries[d.middle]
   IN  /\ mNudged' = FALSE
       /\ now' = clockTime
       /\ lastCall' = NoCall
       /\ mEntries' = d.entries
       /\ mDebt' = d.debt
       /\ IF work
          THEN /\ mMiddleIdx' = Next1(d.middle)
               /\ mCredit' = credit + entry.mDuration
          ELSE /\ mMiddleIdx' = d.middle
               /\ mCredit' = credit
       /\ mLastTransformerTimeMillis' =
             IF checkDebt THEN clockTime ELSE mLastTransformerTimeMillis
       /\ transformerAt' = IF work THEN "holding" ELSE "finishing"
       /\ UNCHANGED << mTrailingIdx, mLeadingIdx, mRate, mLastScrubTimeMillis,
                       mMaxDebt, scrubOptions >>

\* what Transformer reads from the clock; it uses the reading only when it
\* checks the debt
TransformerReadings(checkDebt) == IF checkDebt THEN ClockReadings ELSE {now}

TransformerReady == mNudged \/ mMiddleIdx # mLeadingIdx

\* ScrubQueue::Transformer: the first call of a pass of FillBuffers takes the
\* mutex (and checks the debt), the later ones find it held; on an empty
\* queue that was not nudged the call waits and gives up the mutex
Transformer ==
   /\ transformerAt \in {"out", "holding"}
   /\ \/ /\ TransformerReady
         /\ \E clockTime \in TransformerReadings(transformerAt = "out") :
               TransformerBody(transformerAt = "out", clockTime)
      \/ /\ ~TransformerReady
         /\ transformerAt' =
               IF transformerAt = "out" THEN "waitCheck" ELSE "waitNoCheck"
         /\ lastCall' = NoCall
         /\ UNCHANGED << mEntries, mTrailingIdx, mMiddleIdx, mLeadingIdx,
                         mRate, mLastScrubTimeMillis,
                         mLastTransformerTimeMillis, mCredit, mDebt, mMaxDebt,
                         mNudged, scrubOptions, now >>

\* the buffering thread, scrubbing: AudioThread::Entry calls FillBuffers when
\* one of the two flags is set, and FillBuffers calls Transformer until the
\* ring buffers are full or Transformer reports no work
ScrubFillBuffers ==
   /\ transformerAt = "out"
         => \/ mAudioThreadShouldCallFillBuffersOnce
            \/ mAudioThreadFillBuffersLoopRunning
   /\ Transformer
   /\ UNCHANGED << loopFlags, transportVars, scheduleVars, workVars >>

\* mAvailable.Wait() returns and Transformer goes on
TransformerWake ==
   /\ transformerAt \in {"waitCheck", "waitNoCheck"}
   /\ TransformerReady
   /\ \E clockTime \in TransformerReadings(transformerAt = "waitCheck") :
         TransformerBody(transformerAt = "waitCheck", clockTime)
   /\ UNCHANGED << loopFlags, transportVars, scheduleVars, workVars >>

\* The do-loop of FillBuffers ends: the locker `cleanup' gives up the mutex,
\* and AudioThread::Entry clears the request for one pass
FillBuffersLoopEnd ==
   /\ transformerAt \in {"holding", "finishing"}
   /\ transformerAt' = "out"
   /\ lastCall' = NoCall
   /\ mAudioThreadShouldCallFillBuffersOnce' = FALSE
   /\ UNCHANGED << mEntries, mTrailingIdx, mMiddleIdx, mLeadingIdx,
                   mRate, mLastScrubTimeMillis,
                   mLastTransformerTimeMillis, mCredit, mDebt, mMaxDebt,
                   mNudged, scrubOptions, now,
                   mAudioThreadFillBuffersLoopRunning >>
   /\ UNCHANGED << transportVars, scheduleVars, workVars >>

\* StartStream waits for the buffering thread to prime the ring buffers and
\* nudges the queue, so that a Transformer waiting for work ends the pass
StartStreamWait ==
   /\ mAudioThreadShouldCallFillBuffersOnce
   /\ Nudge
   /\ UNCHANGED << loopFlags, transportVars, scheduleVars, workVars >>

\* StartStream goes on: the loop of the buffering thread and the stream start
StartStreamRun ==
   /\ ~mAudioThreadShouldCallFillBuffersOnce
   /\ ~mAudioThreadFillBuffersLoopRunning
   /\ mAudioThreadFillBuffersLoopRunning' = TRUE
   /\ UNCHANGED << scrubVars, mAudioThreadShouldCallFillBuffersOnce >>
   /\ UNCHANGED << transportVars, scheduleVars, workVars >>

\* Entry::GetTime in milliseconds: a rational, or "NaN" for 0/0
GetTime(entry, rate) ==
   IF entry.mDuration = 0 THEN "NaN"
   ELSE << 1000 * (entry.mS0 * entry.mDuration
                   + (entry.mS1 - entry.mS0) * entry.mPlayed),
           entry.mDuration * rate >>

\* the loop of Consumer
RECURSIVE ConsumeLoop(_, _, _)
ConsumeLoop(entries, trailing, frames) ==
   LET entry == entries[trailing]
       remaining == entry.mDuration - entry.mPlayed
       next == Next1(trailing)
   IN  IF frames >= remaining
       THEN LET played == [entries EXCEPT
                             ![trailing].mPlayed = entry.mDuration]
            IN  IF next = mMiddleIdx
                THEN [entries |-> played, trailing |-> trailing]
                ELSE ConsumeLoop(played, next, frames - remaining)
       ELSE [entries |-> [entries EXCEPT
                            ![trailing].mPlayed = entry.mPlayed + frames],
             trailing |-> trailing]

\* ScrubQueue::Consumer
Consumer(frames) ==
   LET c == ConsumeLoop(mEntries, mTrailingIdx, frames)
   IN  /\ MutexFree
       /\ mEntries' = c.entries
       /\ mTrailingIdx' = c.trailing
       /\ lastCall' = NoCall
       /\ UNCHANGED << mMiddleIdx, mLeadingIdx, mRate, mLastScrubTimeMillis,
                       mLastTransformerTimeMillis, mCredit, mDebt, mMaxDebt,
                       mNudged, scrubOptions, now, transformerAt >>

\* the hardware callback, running once the stream has started, reports the
\* frames it took from the ring buffers
CallbackConsume ==
   /\ mAudioThreadFillBuffersLoopRunning
   /\ \E frames \in 0 .. MaxFrames : Consumer(frames)
   /\ UNCHANGED << loopFlags, transportVars, scheduleVars, workVars >>

(***************************************************************************)
(* The transport: StartStream, StopStream, the buffering thread, the MIDI  *)
(* thread and the hardware callback.  The queue is left out of this part:  *)
(* whether Transformer finds work in it is an input of the buffering       *)
(* thread.                                                                 *)
(***************************************************************************)
\* the tracks a stream is started with
TrackSets ==
   { [playback |-> TRUE, capture |-> FALSE, scrub |-> FALSE, midi |-> FALSE],
     [playback |-> FALSE, capture |-> TRUE, scrub |-> FALSE, midi |-> FALSE],
     [playback |-> TRUE, capture |-> FALSE, scrub |-> TRUE, midi |-> FALSE],
     [playback |-> TRUE, capture |-> FALSE, scrub |-> FALSE, midi |-> TRUE] }

NoTracks ==
   [playback |-> FALSE, capture |-> FALSE, scrub |-> FALSE, midi |-> FALSE]

\* AudioIO::IsBusy
IsBusy == mStreamToken # 0

\* AudioIO::IsAudioTokenActive
IsAudioTokenActive(token) == token > 0 /\ token = mStreamToken

\* a StartStream that issues the token of the stream before
SameToken(n) == n

\* ++mNextStreamToken
NextToken(n) == n + 1

\* mScrubQueue->Nudge(), when there is a queue
NudgeIfScrubbing == mNudged' = (tracks.scrub \/ mNudged)

\* AudioIO::StartStream up to the opening of the streams
StartStream ==
   /\ mainAt = "idle"
   /\ ~IsBusy
   /\ mPortStreamV19 = "NULL"
   /\ mNextStreamToken < MaxStarts
   /\ \E t \in TrackSets : tracks' = t
   /\ mStreamToken' = mStreamToken - 1
   /\ mSeek' = FALSE
   /\ stopCompleted' = FALSE
   /\ mainAt' = "startOpen"
   /\ UNCHANGED << mSuspendAudioThread, mNextStreamToken, returned,
                   mPortStreamV19, ringBuffers, captured, abortJoins,
                   midiVars, audioVars, callbackVars, mPaused, mUpdateMeters,
                   loopFlags, scrubVars, scheduleVars, workVars >>

\* StartStream: StartPortAudioStream and StartPortMidiStream
StartStreamOpen ==
   /\ mainAt = "startOpen"
   /\ \E successAudio \in BOOLEAN, successMidi \in BOOLEAN :
         /\ mPortStreamV19' = IF successAudio THEN "stopped" ELSE "NULL"
         /\ mUpdateMeters' = TRUE
         /\ IF tracks.midi /\ successMidi
            THEN /\ mMidiStream' = TRUE
                 /\ mMidiStreamActive' = TRUE
                 /\ mMidiThreadFillBuffersLoopRunning' = TRUE
            ELSE UNCHANGED << mMidiStream, mMidiStreamActive,
                              mMidiThreadFillBuffersLoopRunning >>
         /\ IF successAudio
            THEN /\ mainAt' = "startAlloc"
                 /\ UNCHANGED mStreamToken
            ELSE /\ mStreamToken' = 0
                 /\ mainAt' = "idle"
   /\ UNCHANGED << mSuspendAudioThread, mNextStreamToken, returned,
                   stopCompleted, ringBuffers, captured, tracks,
                   abortJoins, mMidiThreadFillBuffersLoopActive, audioVars,
                   callbackVars, mSeek, mPaused, loopFlags, scrubVars,
                   scheduleVars, workVars >>

\* AudioIO::StartStreamCleanup(false)
StartStreamCleanup ==
   /\ ringBuffers' = "releasedByCleanup"
   /\ mPortStreamV19' = "NULL"
   /\ mStreamToken' = 0

\* StartStream: the buffers, mixers and the scrub queue are made and the
\* buffering thread is asked for one pass; without memory StartStream gives
\* up
StartStreamAlloc ==
   /\ mainAt = "startAlloc"
   /\ \E ok \in BOOLEAN :
         IF ok
         THEN /\ ringBuffers' = "allocated"
              /\ captured' = "none"
              /\ mNudged' = (~tracks.scrub /\ mNudged)
              /\ mAudioThreadShouldCallFillBuffersOnce' = TRUE
              /\ mainAt' = "startPrime"
              /\ UNCHANGED << mPortStreamV19, mStreamToken >>
         ELSE /\ StartStreamCleanup
              /\ mainAt' = "idle"
              /\ UNCHANGED << captured, mNudged,
                              mAudioThreadShouldCallFillBuffersOnce >>
   /\ UNCHANGED << mSuspendAudioThread, mNextStreamToken, returned,
                   stopCompleted, tracks, abortJoins,
                   midiVars, audioVars, callbackVars, uiVars,
                   mAudioThreadFillBuffersLoopRunning, queueVars,
                   scheduleVars, workVars >>

\* StartStream waits for the pass of the buffering thread
StartStreamPrime ==
   /\ mainAt = "startPrime"
   /\ mAudioThreadShouldCallFillBuffersOnce
   /\ NudgeIfScrubbing
   /\ UNCHANGED << transportVars, loopFlags, queueVars, scheduleVars,
                   workVars >>

\* StartStream: the token is issued and the loop of the buffering thread
\* started
StartStreamLoop ==
   /\ mainAt = "startPrime"
   /\ ~mAudioThreadShouldCallFillBuffersOnce
   /\ mNextStreamToken' = NextToken(mNextStreamToken)
   /\ mStreamToken' = NextToken(mNextStreamToken)
   /\ mAudioThreadFillBuffersLoopRunning' = TRUE
   /\ mainAt' = "startPa"
   /\ UNCHANGED << mSuspendAudioThread, returned, stopCompleted, streamVars,
                   midiVars, audioVars, callbackVars, uiVars,
                   mAudioThreadShouldCallFillBuffersOnce, scrubVars,
                   scheduleVars, workVars >>

\* StartStream: Pa_StartStream, and the return of the token
StartStreamPa ==
   /\ mainAt = "startPa"
   /\ \E err \in {"paNoError", "error"} :
         IF err # "paNoError"
         THEN /\ mAudioThreadFillBuffersLoopRunning' = FALSE
              /\ StartStreamCleanup
              /\ UNCHANGED returned
         ELSE /\ mPortStreamV19' = "active"
              /\ returned' = Append(returned, mStreamToken)
              /\ UNCHANGED << mAudioThreadFillBuffersLoopRunning,
                              ringBuffers, mStreamToken >>
   /\ mainAt' = "idle"
   /\ UNCHANGED << mSuspendAudioThread, mNextStreamToken, stopCompleted,
                   captured, tracks, abortJoins, midiVars, audioVars,
                   callbackVars, uiVars,
                   mAudioThreadShouldCallFillBuffersOnce, scrubVars,
                   scheduleVars, workVars >>

\* Pa_IsStreamStopped( mPortStreamV19 ), which is an error code for no stream
Pa_IsStreamStopped == mPortStreamV19 \in {"NULL", "stopped"}

\* AudioIO::StopStream up to the locker of mSuspendAudioThread
StopStream ==
   /\ mainAt = "idle"
   /\ IF \/ mPortStreamV19 = "NULL" /\ ~mMidiStream
         \/ Pa_IsStreamStopped /\ ~mMidiStreamActive
      THEN /\ stopCompleted' = TRUE
           /\ UNCHANGED mainAt
      ELSE /\ mainAt' = "stopLock"
           /\ UNCHANGED stopCompleted
   /\ UNCHANGED << mSuspendAudioThread, mStreamToken, mNextStreamToken,
                   returned, streamVars, midiVars, audioVars, callbackVars,
                   uiVars, loopFlags, scrubVars, scheduleVars, workVars >>

\* StopStream takes the mutex, stops the loop of the buffering thread and
\* the updates of the meters
StopStreamLock ==
   /\ mainAt = "stopLock"
   /\ mSuspendAudioThread = "free"
   /\ mSuspendAudioThread' = "main"
   /\ mAudioThreadFillBuffersLoopRunning' = FALSE
   /\ NudgeIfScrubbing
   /\ mUpdateMeters' = FALSE
   /\ mainAt' = "stopMeters"
   /\ UNCHANGED << tokenVars, streamVars, midiVars, audioVars, callbackVars,
                   mSeek, mPaused, mAudioThreadShouldCallFillBuffersOnce,
                   queueVars, scheduleVars, workVars >>

\* StopStream waits for the callback to leave the meters
StopStreamMeters ==
   /\ mainAt = "stopMeters"
   /\ ~mUpdatingMeters
   /\ mainAt' = "stopAbort"
   /\ UNCHANGED << mSuspendAudioThread, tokenVars, streamVars, midiVars,
                   audioVars, callbackVars, uiVars, loopFlags, scrubVars,
                   scheduleVars, workVars >>

\* Pa_AbortStream can return: the callback is not running, or it is blocked
\* on the mutex and the build does not join its thread
AbortReturns ==
   \/ callbackAt = "idle"
   \/ ~abortJoins /\ callbackAt = "seekLock"

\* StopStream: Pa_AbortStream, Pa_CloseStream, and the MIDI thread is told to
\* stop
StopStreamAbort ==
   /\ mainAt = "stopAbort"
   /\ mPortStreamV19 # "NULL" => AbortReturns
   /\ mPortStreamV19' = "NULL"
   /\ IF mMidiStream
      THEN /\ mMidiStreamActive' = FALSE
           /\ mMidiThreadFillBuffersLoopRunning' = FALSE
           /\ mainAt' = "stopMidi"
      ELSE /\ mainAt' = "stopOnce"
           /\ UNCHANGED << mMidiStreamActive,
                           mMidiThreadFillBuffersLoopRunning >>
   /\ UNCHANGED << mSuspendAudioThread, tokenVars, ringBuffers,
                   captured, tracks, abortJoins, mMidiStream,
                   mMidiThreadFillBuffersLoopActive, audioVars, callbackVars,
                   uiVars, loopFlags, scrubVars, scheduleVars, workVars >>

\* StopStream waits for the MIDI thread and closes the MIDI stream
StopStreamMidi ==
   /\ mainAt = "stopMidi"
   /\ ~mMidiThreadFillBuffersLoopActive
   /\ mMidiStream' = FALSE
   /\ mainAt' = "stopOnce"
   /\ UNCHANGED << mSuspendAudioThread, tokenVars, streamVars,
                   mMidiStreamActive, mMidiThreadFillBuffersLoopRunning,
                   mMidiThreadFillBuffersLoopActive, audioVars, callbackVars,
                   uiVars, loopFlags, scrubVars, scheduleVars, workVars >>

\* StopStream asks the buffering thread for one last pass, unless the stream
\* was only monitoring
StopStreamOnce ==
   /\ mainAt = "stopOnce"
   /\ IF mStreamToken > 0
      THEN /\ mAudioThreadShouldCallFillBuffersOnce' = TRUE
           /\ mainAt' = "stopWait"
      ELSE /\ mainAt' = "stopEnd"
           /\ UNCHANGED mAudioThreadShouldCallFillBuffersOnce
   /\ UNCHANGED << mSuspendAudioThread, tokenVars, streamVars, midiVars,
                   audioVars, callbackVars, uiVars,
                   mAudioThreadFillBuffersLoopRunning, scrubVars,
                   scheduleVars, workVars >>

\* StopStream waits for the last pass
StopStreamWait ==
   /\ mainAt = "stopWait"
   /\ mAudioThreadShouldCallFillBuffersOnce
   /\ NudgeIfScrubbing
   /\ UNCHANGED << transportVars, loopFlags, queueVars, scheduleVars,
                   workVars >>

\* a StopStream that does not wait for the last pass
StopNoWait == TRUE

\* the test of the loop in which StopStream waits for the last pass
StopWaited == ~mAudioThreadShouldCallFillBuffersOnce

\* StopStream frees the buffers, mixers and resamplers and flushes the
\* capture tracks
StopStreamRelease ==
   /\ mainAt = "stopWait"
   /\ StopWaited
   /\ ringBuffers' = "releasedByStop"
   /\ captured' = IF tracks.capture THEN "flushed" ELSE captured
   /\ mainAt' = "stopEnd"
   /\ UNCHANGED << mSuspendAudioThread, tokenVars, mPortStreamV19, tracks,
                   abortJoins, midiVars, audioVars, callbackVars, uiVars,
                   loopFlags, scrubVars, scheduleVars, workVars >>

\* StopStream: the token is given up, the tracks are forgotten and the
\* locker gives up the mutex
StopStreamEnd ==
   /\ mainAt = "stopEnd"
   /\ mStreamToken' = 0
   /\ tracks' = NoTracks
   /\ mSuspendAudioThread' = "free"
   /\ stopCompleted' = TRUE
   /\ mainAt' = "idle"
   /\ UNCHANGED << mNextStreamToken, returned, mPortStreamV19, ringBuffers,
                   captured, abortJoins, midiVars, audioVars,
                   callbackVars, uiVars, loopFlags, scrubVars, scheduleVars,
                   workVars >>

\* AudioIO::SetPaused, called by the UI for the stream it started
SetPaused ==
   /\ mainAt = "idle"
   /\ mStreamToken > 0
   /\ \E state \in BOOLEAN : mPaused' = state
   /\ UNCHANGED << mainAt, mSuspendAudioThread, tokenVars, streamVars,
                   midiVars, audioVars, callbackVars, mSeek, mUpdateMeters,
                   loopFlags, scrubVars, scheduleVars, workVars >>

\* AudioIO::SeekStream: the UI leaves a seek for the callback
SeekStream ==
   /\ mainAt = "idle"
   /\ mStreamToken > 0
   /\ mSeek' = TRUE
   /\ UNCHANGED << mainAt, mSuspendAudioThread, tokenVars, streamVars,
                   midiVars, audioVars, callbackVars, mPaused, mUpdateMeters,
                   loopFlags, scrubVars, scheduleVars, workVars >>

\* AudioThread::Entry: mAudioThreadFillBuffersLoopActive = true
AudioLoopTop ==
   /\ audioAt = "top"
   /\ mAudioThreadFillBuffersLoopActive' = TRUE
   /\ audioAt' = "test"
   /\ UNCHANGED << mainAt, mSuspendAudioThread, tokenVars, streamVars,
                   midiVars, callbackVars, uiVars, loopFlags, scrubVars,
                   scheduleVars, workVars >>

\* AudioThread::Entry: the tests of the two flags
AudioLoopTest ==
   /\ audioAt = "test"
   /\ audioAt' = IF mAudioThreadShouldCallFillBuffersOnce THEN "fillOnce"
                 ELSE IF mAudioThreadFillBuffersLoopRunning THEN "fillLoop"
                 ELSE "bottom"
   /\ UNCHANGED << mainAt, mSuspendAudioThread, tokenVars, streamVars,
                   midiVars, mAudioThreadFillBuffersLoopActive, callbackVars,
                   uiVars, loopFlags, scrubVars, scheduleVars, workVars >>

\* FillBuffers calls Transformer, which takes the nudge or waits
AudioTransformer ==
   /\ audioAt \in {"fillOnce", "fillLoop"}
   /\ tracks.scrub
   /\ IF mNudged
      THEN /\ mNudged' = FALSE
           /\ UNCHANGED audioAt
      ELSE /\ audioAt' = IF audioAt = "fillOnce" THEN "waitOnce"
                         ELSE "waitLoop"
           /\ UNCHANGED mNudged
   /\ UNCHANGED << mainAt, mSuspendAudioThread, tokenVars, streamVars,
                   midiVars, mAudioThreadFillBuffersLoopActive, callbackVars,
                   uiVars, loopFlags, queueVars, scheduleVars, workVars >>

\* mAvailable.Wait() returns: the queue was nudged, or the UI enqueued work
AudioTransformerWake ==
   /\ audioAt \in {"waitOnce", "waitLoop"}
   /\ mNudged \/ (mainAt = "idle" /\ mStreamToken > 0)
   /\ mNudged' = FALSE
   /\ audioAt' = IF audioAt = "waitOnce" THEN "fillOnce" ELSE "fillLoop"
   /\ UNCHANGED << mainAt, mSuspendAudioThread, tokenVars, streamVars,
                   midiVars, mAudioThreadFillBuffersLoopActive, callbackVars,
                   uiVars, loopFlags, queueVars, scheduleVars, workVars >>

\* FillBuffers returns, having appended to the capture tracks, and
\* AudioThread::Entry clears the request for one pass if it served one
AudioFillReturn ==
   /\ audioAt \in {"fillOnce", "fillLoop"}
   /\ mAudioThreadShouldCallFillBuffersOnce' =
         (audioAt # "fillOnce" /\ mAudioThreadShouldCallFillBuffersOnce)
   /\ captured' = IF tracks.capture /\ captured = "buffered"
                   THEN "appended" ELSE captured
   /\ audioAt' = "bottom"
   /\ UNCHANGED << mainAt, mSuspendAudioThread, tokenVars, mPortStreamV19,
                   ringBuffers, tracks, abortJoins, midiVars,
                   mAudioThreadFillBuffersLoopActive, callbackVars, uiVars,
                   mAudioThreadFillBuffersLoopRunning, scrubVars,
                   scheduleVars, workVars >>

\* AudioThread::Entry: mAudioThreadFillBuffersLoopActive = false
AudioLoopBottom ==
   /\ audioAt = "bottom"
   /\ mAudioThreadFillBuffersLoopActive' = FALSE
   /\ audioAt' = "top"
   /\ UNCHANGED << mainAt, mSuspendAudioThread, tokenVars, streamVars,
                   midiVars, callbackVars, uiVars, loopFlags, scrubVars,
                   scheduleVars, workVars >>

\* MidiThread::Entry: one turn of the loop begins, and ends. (The turns the
\* thread takes while no MIDI stream is open are left out: nothing reads the
\* flag then.)
MidiLoop ==
   /\ mMidiStream \/ mMidiThreadFillBuffersLoopActive
   /\ mMidiThreadFillBuffersLoopActive' = ~mMidiThreadFillBuffersLoopActive
   /\ UNCHANGED << mainAt, mSuspendAudioThread, tokenVars, streamVars,
                   mMidiStream, mMidiStreamActive,
                   mMidiThreadFillBuffersLoopRunning, audioVars,
                   callbackVars, uiVars, loopFlags, scrubVars, scheduleVars,
                   workVars >>

\* the callback returns to PortAudio; a result other than paContinue ends
\* the stream
CallbackReturn(result) ==
   /\ callbackAt' = "idle"
   /\ mPortStreamV19' =
         IF result # "paContinue" /\ mPortStreamV19 = "active"
         THEN "finished" ELSE mPortStreamV19

\* what the callback can return at its end: paComplete when the pass is
\* complete, which it never is in a scrub
CallbackResults ==
   IF tracks.scrub THEN {"paContinue"} ELSE {"paContinue", "paComplete"}

\* AudioIO::AudioCallback is called by PortAudio and comes to the meter of
\* the input
AudioCallback ==
   /\ callbackAt = "idle"
   /\ mPortStreamV19 = "active"
   /\ IF tracks.capture
      THEN /\ mUpdatingMeters' = TRUE
           /\ callbackAt' = "meterIn"
      ELSE /\ callbackAt' = "body"
           /\ UNCHANGED mUpdatingMeters
   /\ UNCHANGED << mainAt, mSuspendAudioThread, tokenVars, streamVars,
                   midiVars, audioVars, seekToken, uiVars, loopFlags,
                   scrubVars, scheduleVars, workVars >>

\* the callback leaves the meter of the input
CallbackMeterIn ==
   /\ callbackAt = "meterIn"
   /\ mUpdatingMeters' = FALSE
   /\ callbackAt' = "body"
   /\ UNCHANGED << mainAt, mSuspendAudioThread, tokenVars, streamVars,
                   midiVars, audioVars, seekToken, uiVars, loopFlags,
                   scrubVars, scheduleVars, workVars >>

\* the callback between the meters: it returns when paused, goes to
\* CallbackDoSeek for a pending seek (which a scrub drops), and else moves
\* the samples and comes to the meter of the output
CallbackBody ==
   /\ callbackAt = "body"
   /\ IF mPaused
      THEN /\ CallbackReturn("paContinue")
           /\ UNCHANGED << seekToken, mUpdatingMeters, mSeek, captured >>
      ELSE IF mStreamToken > 0 /\ tracks.playback /\ mSeek /\ ~tracks.scrub
      THEN /\ seekToken' = mStreamToken
           /\ callbackAt' = "seekLock"
           /\ UNCHANGED << mPortStreamV19, mUpdatingMeters, mSeek, captured >>
      ELSE /\ mSeek' = (mSeek /\ ~(mStreamToken > 0 /\ tracks.playback))
           /\ captured' = IF mStreamToken > 0 /\ tracks.capture
                             /\ captured = "none"
                           THEN "buffered" ELSE captured
           /\ UNCHANGED seekToken
           /\ IF tracks.playback
              THEN /\ mUpdatingMeters' = TRUE
                   /\ callbackAt' = "meterOut"
                   /\ UNCHANGED mPortStreamV19
              ELSE /\ \E result \in CallbackResults : CallbackReturn(result)
                   /\ UNCHANGED mUpdatingMeters
   /\ UNCHANGED << mainAt, mSuspendAudioThread, tokenVars, ringBuffers,
                   tracks, abortJoins, midiVars, audioVars,
                   mPaused, mUpdateMeters, loopFlags, scrubVars,
                   scheduleVars, workVars >>

\* CallbackDoSeek takes the mutex; it gives up when the stream is another,
\* else it stops the loop of the buffering thread
CallbackDoSeekLock ==
   /\ callbackAt = "seekLock"
   /\ mSuspendAudioThread = "free"
   /\ IF seekToken # mStreamToken
      THEN /\ CallbackReturn("paAbort")
           /\ UNCHANGED << mSuspendAudioThread,
                           mAudioThreadFillBuffersLoopRunning >>
      ELSE /\ mSuspendAudioThread' = "callback"
           /\ mAudioThreadFillBuffersLoopRunning' = FALSE
           /\ callbackAt' = "seekPause"
           /\ UNCHANGED mPortStreamV19
   /\ UNCHANGED << mainAt, tokenVars, ringBuffers, captured, tracks,
                   abortJoins, midiVars, audioVars, seekToken,
                   mUpdatingMeters, uiVars,
                   mAudioThreadShouldCallFillBuffersOnce, scrubVars,
                   scheduleVars, workVars >>

\* CallbackDoSeek has waited for the buffering thread: the seek is done, the
\* buffers are emptied and one pass is asked for
CallbackDoSeekPause ==
   /\ callbackAt = "seekPause"
   /\ ~mAudioThreadFillBuffersLoopActive
   /\ mSeek' = FALSE
   /\ mAudioThreadShouldCallFillBuffersOnce' = TRUE
   /\ callbackAt' = "seekReload"
   /\ UNCHANGED << mainAt, mSuspendAudioThread, tokenVars, streamVars,
                   midiVars, audioVars, seekToken, mUpdatingMeters, mPaused,
                   mUpdateMeters, mAudioThreadFillBuffersLoopRunning,
                   scrubVars, scheduleVars, workVars >>

\* CallbackDoSeek has waited for the pass: the loop of the buffering thread
\* goes on and the callback returns paContinue
CallbackDoSeekReload ==
   /\ callbackAt = "seekReload"
   /\ ~mAudioThreadShouldCallFillBuffersOnce
   /\ mAudioThreadFillBuffersLoopRunning' = TRUE
   /\ mSuspendAudioThread' = "free"
   /\ CallbackReturn("paContinue")
   /\ UNCHANGED << mainAt, tokenVars, ringBuffers, captured, tracks,
                   abortJoins, midiVars, audioVars, seekToken,
                   mUpdatingMeters, uiVars,
                   mAudioThreadShouldCallFillBuffersOnce, scrubVars,
                   scheduleVars, workVars >>

\* the callback leaves the meter of the output and returns
CallbackMeterOut ==
   /\ callbackAt = "meterOut"
   /\ mUpdatingMeters' = FALSE
   /\ \E result \in CallbackResults : CallbackReturn(result)
   /\ UNCHANGED << mainAt, mSuspendAudioThread, tokenVars, ringBuffers,
                   captured, tracks, abortJoins, midiVars, audioVars,
                   seekToken, uiVars, loopFlags, scrubVars, scheduleVars,
                   workVars >>

(***************************************************************************)
(* The playback schedule: struct AudioIO::PlaybackSchedule                 *)
(***************************************************************************)
PlayModes == {"PLAY_STRAIGHT", "PLAY_LOOPED", "PLAY_SCRUB", "PLAY_AT_SPEED"}

PlayingStraight == mPlayMode = "PLAY_STRAIGHT"

Looping == mPlayMode = "PLAY_LOOPED"

Interactive == mPlayMode \in {"PLAY_SCRUB", "PLAY_AT_SPEED"}

ReversedTime == mT1 < mT0

\* PlaybackSchedule::ClampTrackTime
\* a ClampTrackTime that takes the schedule for a forward one
ClampForward(trackTime) == Max(mT0, Min(mT1, trackTime))

\* PlaybackSchedule::ClampTrackTime
ClampTrackTime(trackTime) ==
   IF ReversedTime THEN Max(mT1, Min(mT0, trackTime))
   ELSE Max(mT0, Min(mT1, trackTime))

\* an Overruns that holds only past the end
OverrunsPast(trackTime) ==
   IF ReversedTime THEN trackTime < mT1 ELSE trackTime > mT1

\* PlaybackSchedule::Overruns
Overruns(trackTime) ==
   IF ReversedTime THEN trackTime <= mT1 ELSE trackTime >= mT1

\* a TrackTimeUpdate that does not wrap
NoWrap(time) == time

\* the loop of TrackTimeUpdate that wraps the time to the start
RECURSIVE WrapToStart(_)
WrapToStart(time) ==
   IF Overruns(time) THEN WrapToStart(time - (mT1 - mT0)) ELSE time

\* PlaybackSchedule::TrackTimeUpdate without a time track
TrackTimeUpdate(realElapsed) ==
   IF Interactive
   THEN UNCHANGED mTime
   ELSE LET time == mTime + IF ReversedTime THEN -realElapsed
                            ELSE realElapsed
        IN  mTime' = IF Looping THEN WrapToStart(time) ELSE time

\* the times of the project the UI can name
Times == 0 .. MaxTime

\* StartStream: PlaybackSchedule::Init with the times and the mode the
\* options ask for, and then the start time of the options, if any (-1: none)
ScheduleStart ==
   /\ \E t0 \in Times, t1 \in Times, mode \in PlayModes,
         pStartTime \in {-1} \cup Times :
         /\ mT0' = t0
         /\ mT1' = t1
         /\ mPlayMode' = mode
         /\ mTime' = IF pStartTime = -1 THEN t0
                     ELSE IF t1 < t0 THEN Max(t1, Min(t0, pStartTime))
                     ELSE Max(t0, Min(t1, pStartTime))
   /\ startTime' = mTime'
   /\ elapsedSum' = 0
   /\ scheduleOp' = "Init"
   /\ UNCHANGED << scrubVars, loopFlags, transportVars, workVars >>

\* the callback of a stream that is not scrubbing: TrackTimeUpdate for the
\* buffer period. (The loop that wraps does not end when mT0 = mT1.)
CallbackTrackTimeUpdate ==
   /\ ~Interactive
   /\ Looping => mT0 # mT1
   /\ mTime >= Min(mT0, mT1) - MaxOverrun
   /\ mTime <= Max(mT0, mT1) + MaxOverrun
   /\ \E realElapsed \in 0 .. MaxElapsed :
         /\ elapsedSum + realElapsed <= MaxSum
         /\ TrackTimeUpdate(realElapsed)
         /\ elapsedSum' = elapsedSum + realElapsed
   /\ scheduleOp' = "TrackTimeUpdate"
   /\ UNCHANGED << mT0, mT1, mPlayMode, startTime, scrubVars, loopFlags,
                   transportVars, workVars >>

\* CallbackDoSeek: the new time
CallbackSeek ==
   /\ ~Interactive
   /\ \E seek \in (-MaxSeek .. MaxSeek) \ {0} :
         mTime' = ClampTrackTime(mTime + seek)
   /\ startTime' = mTime'
   /\ elapsedSum' = 0
   /\ scheduleOp' = "Seek"
   /\ UNCHANGED << mT0, mT1, mPlayMode, scrubVars, loopFlags, transportVars,
                   workVars >>

\* the callback of a scrub stores the time Consumer reports, a time of the
\* project or just beyond it
CallbackScrubTime ==
   /\ Interactive
   /\ \E time \in 0 .. MaxTime + MaxOverrun : mTime' = time
   /\ scheduleOp' = "Consumer"
   /\ UNCHANGED << mT0, mT1, mPlayMode, startTime, elapsedSum, scrubVars,
                   loopFlags, transportVars, workVars >>

(***************************************************************************)
(* TrackTimeUpdate, one step for each turn of its loops                    *)
(***************************************************************************)
\* TimeTrack::SolveWarpedLength and TimeTrack::ComputeWarpedLength for a time
\* track of constant speed, in units of time in which the speed is 1
SolveWarpedLength(t, length) == t + length

ComputeWarpedLength(t0, t1) == t1 - t0

\* SetTrackTime( time ) and the return of TrackTimeUpdate
TrackTimeUpdateReturn(t) ==
   /\ mTime' = t
   /\ updateAt' = "idle"

\* the test that defends the loops of TrackTimeUpdate:
\* mTimeTrack && fabs(mT0 - mT1) < 1e-9
DegenerateRange == mTimeTrack /\ mT0 = mT1

\* the callback calls TrackTimeUpdate: up to the first turn of a loop
TrackTimeUpdateCall ==
   /\ updateAt = "idle"
   /\ mTime >= Min(mT0, mT1) - MaxOverrun
   /\ mTime <= Max(mT0, mT1) + MaxOverrun
   /\ \E elapsed \in 0 .. MaxElapsed :
         LET signed == IF ReversedTime THEN -elapsed ELSE elapsed
         IN  IF Interactive
             THEN UNCHANGED << mTime, updateAt, localTime, localElapsed >>
             ELSE IF DegenerateRange
             THEN /\ TrackTimeUpdateReturn(mT0)
                  /\ UNCHANGED << localTime, localElapsed >>
             ELSE IF mTimeTrack
             THEN /\ localTime' = mTime
                  /\ localElapsed' = signed
                  /\ updateAt' = "solve"
                  /\ UNCHANGED mTime
             ELSE IF Looping
             THEN /\ localTime' = mTime + signed
                  /\ localElapsed' = signed
                  /\ updateAt' = "test"
                  /\ UNCHANGED mTime
             ELSE /\ TrackTimeUpdateReturn(mTime + signed)
                  /\ UNCHANGED << localTime, localElapsed >>
   /\ foundTotal' = FALSE
   /\ total' = 0
   /\ scheduleOp' = "TrackTimeUpdate"
   /\ UNCHANGED << mT0, mT1, mPlayMode, startTime, elapsedSum, mTimeTrack,
                   playVars, recVars, pauseVars, otherVars, scrubVars, loopFlags,
                   transportVars >>

\* one turn of the do-loop of the time track
TrackTimeUpdateSolve ==
   /\ updateAt = "solve"
   /\ LET oldTime == localTime
          solved == IF foundTotal /\ Abs(localElapsed) > Abs(total) THEN mT1
                    ELSE SolveWarpedLength(localTime, localElapsed)
          again == foundTotal /\ oldTime = mT0
          delta == IF again THEN total
                   ELSE ComputeWarpedLength(oldTime, mT1)
      IN  IF Looping /\ Overruns(solved)
          THEN /\ foundTotal' = (foundTotal \/ oldTime = mT0)
               /\ total' = IF ~again /\ oldTime = mT0 THEN delta ELSE total
               /\ localElapsed' = localElapsed - delta
               /\ localTime' = mT0
               /\ UNCHANGED << mTime, updateAt >>
          ELSE /\ TrackTimeUpdateReturn(solved)
               /\ localTime' = solved
               /\ UNCHANGED << localElapsed, foundTotal, total >>
   /\ UNCHANGED << mT0, mT1, mPlayMode, scheduleOp, startTime, elapsedSum,
                   mTimeTrack, playVars, recVars, pauseVars, otherVars, scrubVars, loopFlags,
                   transportVars >>

\* the test of the loop that wraps: while ( Overruns( time ) )
TrackTimeUpdateTest ==
   /\ updateAt = "test"
   /\ IF Overruns(localTime)
      THEN /\ updateAt' = "wrap"
           /\ UNCHANGED mTime
      ELSE TrackTimeUpdateReturn(localTime)
   /\ UNCHANGED << mT0, mT1, mPlayMode, scheduleOp, startTime, elapsedSum,
                   mTimeTrack, localTime, localElapsed, foundTotal, total,
                   playVars, recVars, pauseVars, otherVars, scrubVars, loopFlags,
                   transportVars >>

\* the body of the loop that wraps: time -= mT1 - mT0
TrackTimeUpdateWrap ==
   /\ updateAt = "wrap"
   /\ localTime' = localTime - (mT1 - mT0)
   /\ updateAt' = "test"
   /\ UNCHANGED << mT0, mT1, mTime, mPlayMode, scheduleOp, startTime,
                   elapsedSum, mTimeTrack, localElapsed, foundTotal, total,
                   playVars, recVars, pauseVars, otherVars, scrubVars, loopFlags,
                   transportVars >>

(***************************************************************************)
(* Playing: the playback part of FillBuffers and of the callback, for a    *)
(* stream with one playback track, straight or looped, without a time      *)
(* track. Real times are whole multiples of the unit of time, a frame      *)
(* lasts `period' units.                                                   *)
(***************************************************************************)
\* what a callback leaves in lastCallback
NoCallback ==
   [paused |-> FALSE, len |-> 0, complete |-> FALSE, result |-> "none"]

\* MB: subtract a few samples because the code below has rounding errors
Slack == 10

\* RingBuffer::AvailForPut of the playback ring buffer
AvailForPut == MaxPlaybackBuffer - playAvail

\* PlaybackSchedule::RealTimeRemaining
RealTimeRemaining(warpedTime) == mWarpedLength - warpedTime

\* the do-loop of FillBuffers from a turn on: what it puts into the ring
\* buffer, and the mWarpedTime and the frames of the mixer it leaves
RECURSIVE FillLoop(_, _, _)
FillLoop(available, warpedTime, left) ==
   LET remaining == RealTimeRemaining(warpedTime)
       short == available * period > remaining
       limited == IF short THEN Trunc(remaining, period) ELSE available
       progress == ~(short /\ Looping /\ warpedTime = 0 /\ limited = 0)
       advanced == IF short THEN warpedTime + remaining
                   ELSE warpedTime + available * period
       frames == IF progress THEN limited ELSE available
       processed == IF progress /\ frames > 0 THEN Min(frames, left) ELSE 0
       put == IF processed < frames /\ ~PlayingStraight THEN frames
              ELSE processed
       restart == Looping /\ RealTimeRemaining(advanced) <= 0
       done == IF Looping THEN ~progress \/ available - frames = 0
               ELSE TRUE
       here == [put |-> put,
                warpedTime |-> IF restart THEN 0 ELSE advanced,
                left |-> IF restart THEN trackFrames ELSE left - processed]
   IN  IF done THEN here
       ELSE LET rest == FillLoop(available - frames, here.warpedTime,
                                 here.left)
            IN  [rest EXCEPT !.put = put + rest.put]

\* the playback part of FillBuffers: whether the loop is entered
FillEnters(nAvailable) ==
   \/ nAvailable >= MaxSamplesToCopy
   \/ /\ PlayingStraight
      /\ nAvailable > 0
      /\ nAvailable * period >= RealTimeRemaining(mWarpedTime)

\* the playback part of FillBuffers
FillPlayback ==
   LET nAvailable == AvailForPut - Slack
       filled == FillLoop(Min(nAvailable, MaxSamplesToCopy), mWarpedTime,
                          mixerLeft)
   IN  IF FillEnters(nAvailable)
       THEN /\ playAvail' = playAvail + filled.put
            /\ putTotal' = putTotal + filled.put
            /\ mWarpedTime' = filled.warpedTime
            /\ mixerLeft' = filled.left
       ELSE UNCHANGED << playAvail, putTotal, mWarpedTime, mixerLeft >>

\* AudioThread::Entry calls FillBuffers, for the pass StartStream asks for
\* and then in its loop
PlayFillBuffers ==
   /\ mPortStreamV19 \in {"stopped", "active"}
   /\ mAudioThreadShouldCallFillBuffersOnce
         \/ mAudioThreadFillBuffersLoopRunning
   /\ FillPlayback
   /\ mAudioThreadShouldCallFillBuffersOnce' = FALSE
   /\ UNCHANGED << period, trackFrames, mWarpedLength, drainedTotal,
                   callbackFrames, underran, lastCallback,
                   mAudioThreadFillBuffersLoopRunning, updateVars, recVars, pauseVars, otherVars,
                   scheduleVars, scrubVars, transportVars >>

\* StartStream after the pass it asked for: the token, the loop of the
\* buffering thread and Pa_StartStream
PlayStartStream ==
   /\ mPortStreamV19 = "stopped"
   /\ ~mAudioThreadShouldCallFillBuffersOnce
   /\ mNextStreamToken' = NextToken(mNextStreamToken)
   /\ mStreamToken' = NextToken(mNextStreamToken)
   /\ mAudioThreadFillBuffersLoopRunning' = TRUE
   /\ mPortStreamV19' = "active"
   /\ returned' = Append(returned, mStreamToken')
   /\ mainAt' = "idle"
   /\ UNCHANGED << mSuspendAudioThread, stopCompleted, ringBuffers, captured,
                   tracks, abortJoins, midiVars, audioVars, callbackVars,
                   uiVars, mAudioThreadShouldCallFillBuffersOnce, scrubVars,
                   scheduleVars, workVars >>

\* PlaybackSchedule::Scrubbing
Scrubbing == mPlayMode = "PLAY_SCRUB"

\* a PassIsComplete that does not ask whether the play is a scrub
PassIsCompleteOfAnyPlay == Overruns(mTime)

\* PlaybackSchedule::PassIsComplete
PassIsComplete == IF Scrubbing THEN FALSE ELSE Overruns(mTime)

\* a CallbackCheckCompletion that does not look at the length
CompleteWhenPassed(len) == PassIsComplete

\* AudioIO::CallbackCheckCompletion gives paComplete
CallbackCompletes(len) == PassIsComplete /\ PlayingStraight /\ len = 0

\* the hardware callback of the play: paused it returns at once; else it
\* takes the frames there are from the ring buffer, checks for completion
\* and updates the track time
PlayCallback ==
   /\ mPortStreamV19 = "active"
   /\ mTime <= mT1 + MaxOverrun
   /\ \E framesPerBuffer \in 1 .. MaxFramesPerBuffer :
         IF mPaused
         THEN /\ lastCallback' = [NoCallback EXCEPT !.paused = TRUE,
                                                     !.result = "paContinue"]
              /\ UNCHANGED << playAvail, drainedTotal, callbackFrames,
                              underran, mTime, elapsedSum, scheduleOp,
                              mPortStreamV19, callbackAt >>
         ELSE LET len == Min(playAvail, framesPerBuffer)
                  result == IF CallbackCompletes(len) THEN "paComplete"
                            ELSE "paContinue"
              IN  /\ elapsedSum + framesPerBuffer * period <= MaxSum
                  /\ playAvail' = playAvail - len
                  /\ drainedTotal' = drainedTotal + len
                  /\ callbackFrames' = callbackFrames + framesPerBuffer
                  /\ underran' = (underran \/ (/\ len < framesPerBuffer
                                                /\ mWarpedTime
                                                      < mWarpedLength))
                  /\ lastCallback' = [paused |-> FALSE, len |-> len,
                                      complete |-> PassIsComplete,
                                      result |-> result]
                  /\ TrackTimeUpdate(framesPerBuffer * period)
                  /\ elapsedSum' = elapsedSum + framesPerBuffer * period
                  /\ scheduleOp' = "TrackTimeUpdate"
                  /\ CallbackReturn(result)
   /\ UNCHANGED << period, trackFrames, mixerLeft, mWarpedTime,
                   mWarpedLength, putTotal, mT0, mT1, mPlayMode, startTime,
                   updateVars, recVars, pauseVars, otherVars, mainAt, mSuspendAudioThread,
                   tokenVars,
                   ringBuffers, captured, tracks, abortJoins, midiVars,
                   audioVars, seekToken, mUpdatingMeters, uiVars, loopFlags,
                   scrubVars >>

\* AudioIO::SetPaused of the play
PlaySetPaused ==
   /\ mStreamToken > 0
   /\ mPaused' = ~mPaused
   /\ UNCHANGED << mainAt, mSuspendAudioThread, tokenVars, streamVars,
                   midiVars, audioVars, callbackVars, mSeek, mUpdateMeters,
                   loopFlags, scrubVars, scheduleVars, workVars >>

(***************************************************************************)
(* Recording: the capture part of FillBuffers and of the callback, for a   *)
(* stream with capture tracks only, without pre-roll and without           *)
(* resampling (mFactor = 1). The times of the recording schedule and of    *)
(* the playback schedule are whole numbers of half sample periods.         *)
(***************************************************************************)
\* the capture tracks
CaptureTracks == 1 .. NumCapture

\* nothing for any capture track
NoSamples == [i \in CaptureTracks |-> 0]

\* what a pass of FillBuffers leaves in lastPass
NoPass ==
   [exception |-> FALSE, worked |-> FALSE, failed |-> 0, avail |-> 0,
    size |-> 0, took |-> NoSamples, added |-> NoSamples]

\* what a callback leaves in lastCapture
NoCapture == [frames |-> 0, len |-> 0, intervals |-> << >>, lost |-> 0]

\* nothing has happened out of order
InOrder ==
   [silenceLate |-> FALSE, appendedEarly |-> FALSE, discardedLate |-> FALSE]

\* 1 / mRate, the sample period, in the unit of the times of a recording
SamplePeriod == 2

\* RecordingSchedule::Consumed
Consumed == Max(0, mPosition + totalCorrection)

\* RecordingSchedule::ToConsume
ToConsume == mDuration - Consumed

\* RecordingSchedule::ToDiscard
ToDiscard == Max(0, -(mPosition + totalCorrection))

\* AudioIO::GetCommonlyAvailCapture
GetCommonlyAvailCapture ==
   CHOOSE a \in {captureAvail[i] : i \in CaptureTracks} :
      \A i \in CaptureTracks : a <= captureAvail[i]

\* the least AvailForPut of the capture ring buffers
CommonlyAvailForPut == MaxCaptureBuffer -
   (CHOOSE a \in {captureAvail[i] : i \in CaptureTracks} :
       \A i \in CaptureTracks : a >= captureAvail[i])

\* a pass that does not look at the recording exception
CapturePassUnguarded ==
   \/ mAudioThreadShouldCallFillBuffersOnce
   \/ GetCommonlyAvailCapture >= MinCaptureToCopy

\* FillBuffers works on the capture tracks in this pass
CapturePassRuns ==
   /\ ~mRecordingException
   /\ \/ mAudioThreadShouldCallFillBuffersOnce
      \/ GetCommonlyAvailCapture >= MinCaptureToCopy

\* a pass that inserts the silence whenever the correction is not negative
SilenceEveryPass ==
   IF totalCorrection >= 0 THEN Trunc(totalCorrection, SamplePeriod) ELSE 0

\* the rightward shift: the silence a pass appends to a capture track
SilenceSize ==
   IF ~mLatencyCorrected /\ totalCorrection >= 0
   THEN Trunc(totalCorrection, SamplePeriod)
   ELSE 0

\* a pass that discards all there is while the latency is not corrected
DiscardAll(avail) ==
   IF ~mLatencyCorrected /\ totalCorrection < 0 THEN avail ELSE 0

\* the leftward shift: the samples a pass discards from a capture ring
\* buffer
DiscardSize(avail) ==
   IF ~mLatencyCorrected /\ totalCorrection < 0
   THEN Min(avail, Trunc(ToDiscard, SamplePeriod))
   ELSE 0

\* whether the pass has completed the correction of the latency
LatencyCorrectedBy(avail) ==
   ~(/\ ~mLatencyCorrected
     /\ totalCorrection < 0
     /\ DiscardSize(avail) < Trunc(ToDiscard, SamplePeriod))

\* a pass that appends all it got
AppendUnclamped(avail) == avail - DiscardSize(avail)

\* the captured samples a pass appends to a capture track
AppendSize(avail) ==
   LET toGet == avail - DiscardSize(avail)
       remainingTime == Max(0, ToConsume)
   IN  IF toGet * SamplePeriod > remainingTime
       THEN Trunc(remainingTime, SamplePeriod)
       ELSE toGet

\* a loop over the capture tracks that goes on after the track that failed
ReachedButFailed(i, failed) == failed = 0 \/ i # failed

\* the loop over the capture tracks has done with the track i when the
\* Append to the track `failed' throws (0: none does)
Reached(i, failed) == failed = 0 \/ i < failed

\* the loop of a pass over the capture tracks, in which the Append to the
\* track `failed' throws (0: none does), that of the silence or that of the
\* captured samples
CaptureLoop(avail, failed, stage) ==
   LET whole(i) == Reached(i, failed)
       begun(i) == whole(i) \/ (i = failed /\ stage = "samples")
   IN  /\ silence' = [i \in CaptureTracks |->
                         silence[i] + IF begun(i) THEN SilenceSize ELSE 0]
       /\ discarded' = [i \in CaptureTracks |->
                           discarded[i]
                              + IF begun(i) THEN DiscardSize(avail) ELSE 0]
       /\ captureAvail' = [i \in CaptureTracks |->
                              captureAvail[i]
                                 - IF begun(i) THEN avail ELSE 0]
       /\ appended' = [i \in CaptureTracks |->
                          appended[i]
                             + IF whole(i) THEN AppendSize(avail) ELSE 0]
       /\ outOfOrder' =
             [silenceLate |->
                 \/ outOfOrder.silenceLate
                 \/ \E i \in CaptureTracks :
                       begun(i) /\ SilenceSize > 0 /\ appended[i] > 0,
              appendedEarly |->
                 \/ outOfOrder.appendedEarly
                 \/ \E i \in CaptureTracks :
                       /\ whole(i)
                       /\ AppendSize(avail) > 0
                       /\ totalCorrection < 0
                       /\ discarded'[i]
                             < Trunc(-totalCorrection, SamplePeriod),
              discardedLate |->
                 \/ outOfOrder.discardedLate
                 \/ \E i \in CaptureTracks :
                       /\ begun(i)
                       /\ DiscardSize(avail) > 0
                       /\ discarded[i]
                             >= Trunc(-totalCorrection, SamplePeriod)]
       /\ lastPass' =
             [exception |-> mRecordingException, worked |-> TRUE,
              failed |-> failed,
              avail |-> avail, size |-> AppendSize(avail),
              took |-> [i \in CaptureTracks |->
                          IF begun(i) THEN avail ELSE 0],
              added |-> [i \in CaptureTracks |->
                           IF whole(i) THEN AppendSize(avail) ELSE 0]]

\* what the recording leaves alone in a step of the buffering thread
FillBuffersKeeps ==
   UNCHANGED << mDetectDropouts, mDetectUpstreamDropouts, mLostSamples,
                mLostCaptureIntervals, totalCorrection, mDuration,
                lastCapture, mAudioThreadFillBuffersLoopRunning, updateVars,
                playVars, pauseVars, otherVars, scheduleVars, scrubVars, transportVars >>

\* the capture part of FillBuffers in which no Append throws
FillCapture ==
   IF CapturePassRuns
   THEN /\ CaptureLoop(GetCommonlyAvailCapture, 0, "none")
        /\ mPosition' = mPosition + GetCommonlyAvailCapture * SamplePeriod
        /\ mLatencyCorrected' = LatencyCorrectedBy(GetCommonlyAvailCapture)
   ELSE /\ lastPass' = [NoPass EXCEPT !.exception = mRecordingException]
        /\ UNCHANGED << mPosition, mLatencyCorrected, captureAvail,
                        silence, appended, discarded, outOfOrder >>

\* AudioThread::Entry calls FillBuffers and no Append throws
RecFillBuffers ==
   /\ ringBuffers = "allocated"
   /\ mAudioThreadShouldCallFillBuffersOnce
         \/ mAudioThreadFillBuffersLoopRunning
   /\ FillCapture
   /\ mAudioThreadShouldCallFillBuffersOnce' = FALSE
   /\ UNCHANGED << mRecordingException, caught >>
   /\ FillBuffersKeeps

\* AudioThread::Entry calls FillBuffers and an Append throws for want of
\* storage: the handler of the GuardedCall sets the recording exception
RecFillBuffersThrows ==
   /\ ringBuffers = "allocated"
   /\ mAudioThreadShouldCallFillBuffersOnce
         \/ mAudioThreadFillBuffersLoopRunning
   /\ CapturePassRuns
   /\ \E failed \in CaptureTracks, stage \in {"silence", "samples"} :
         /\ stage = "silence" => SilenceSize > 0
         /\ stage = "samples" => AppendSize(GetCommonlyAvailCapture) > 0
         /\ CaptureLoop(GetCommonlyAvailCapture, failed, stage)
   /\ mRecordingException' = TRUE
   /\ caught' = IF mainAt = "startPrime" THEN "priming" ELSE "running"
   /\ mAudioThreadShouldCallFillBuffersOnce' = FALSE
   /\ UNCHANGED << mPosition, mLatencyCorrected >>
   /\ FillBuffersKeeps

\* StartStream after the pass it asked for: the token, the loop of the
\* buffering thread, Pa_StartStream, and the cleanup at its return
RecStartStream ==
   /\ mainAt = "startPrime"
   /\ mPortStreamV19 = "stopped"
   /\ ~mAudioThreadShouldCallFillBuffersOnce
   /\ mNextStreamToken' = NextToken(mNextStreamToken)
   /\ mStreamToken' = NextToken(mNextStreamToken)
   /\ mAudioThreadFillBuffersLoopRunning' = TRUE
   /\ mPortStreamV19' = "active"
   /\ returned' = Append(returned, mStreamToken')
   /\ mainAt' = "idle"
   /\ mRecordingException' = FALSE
   /\ UNCHANGED << mDetectDropouts, mDetectUpstreamDropouts, mLostSamples,
                   mLostCaptureIntervals, totalCorrection, mDuration,
                   mPosition, mLatencyCorrected, captureAvail, silence,
                   appended, discarded, outOfOrder, caught, lastPass,
                   lastCapture, mSuspendAudioThread, stopCompleted,
                   ringBuffers, captured, tracks, abortJoins, midiVars,
                   audioVars, callbackVars, uiVars,
                   mAudioThreadShouldCallFillBuffersOnce, scrubVars,
                   scheduleVars, updateVars, playVars, pauseVars, otherVars >>

\* a StartStream that, called while the stream is busy, resets the count of
\* the lost samples and keeps their intervals
RecStartStreamBusyKeeps ==
   /\ mainAt = "idle"
   /\ IsBusy
   /\ mLostSamples' = 0
   /\ mRecordingException' = FALSE
   /\ caught' = "none"
   /\ UNCHANGED << mLostCaptureIntervals, mDetectDropouts,
                   mDetectUpstreamDropouts, totalCorrection, mDuration,
                   mPosition, mLatencyCorrected, captureAvail, silence,
                   appended, discarded, outOfOrder, lastPass, lastCapture,
                   mainAt, mSuspendAudioThread, tokenVars, streamVars,
                   midiVars, audioVars, callbackVars, uiVars, loopFlags,
                   scrubVars, scheduleVars, updateVars, playVars, pauseVars,
                   otherVars >>

\* StartStream is called while the stream is busy: it resets the dropouts,
\* reads the preference, which is what it was, returns 0, and its cleanup
\* clears the recording exception
RecStartStreamBusy ==
   /\ mainAt = "idle"
   /\ IsBusy
   /\ mLostSamples' = 0
   /\ mLostCaptureIntervals' = << >>
   /\ mRecordingException' = FALSE
   /\ caught' = "none"
   /\ UNCHANGED << mDetectDropouts, mDetectUpstreamDropouts,
                   totalCorrection, mDuration,
                   mPosition, mLatencyCorrected, captureAvail, silence,
                   appended, discarded, outOfOrder, lastPass, lastCapture,
                   mainAt, mSuspendAudioThread, tokenVars, streamVars,
                   midiVars,
                   audioVars, callbackVars, uiVars, loopFlags, scrubVars,
                   scheduleVars, updateVars, playVars, pauseVars, otherVars >>

\* a callback that notes a dropout whenever it is short
DropoutWhenShort(len, framesPerBuffer, inputError) == len < framesPerBuffer

\* the callback appends a lost interval
Dropout(len, framesPerBuffer, inputError) ==
   /\ mDetectDropouts
   /\ \/ mDetectUpstreamDropouts /\ inputError
      \/ len < framesPerBuffer

\* the hardware callback of the recording: paused it returns at once; else
\* it puts what the capture ring buffers have room for, notes the dropout
\* and updates the track time
RecCallback ==
   /\ mPortStreamV19 = "active"
   /\ mTime <= mT1 + MaxOverrun
   /\ \E framesPerBuffer \in 1 .. MaxFramesPerBuffer,
         inputError \in {FALSE, mDetectUpstreamDropouts} :
         IF mPaused
         THEN /\ lastCapture' = NoCapture
              /\ UNCHANGED << mLostSamples, mLostCaptureIntervals,
                              captureAvail, mTime, elapsedSum, scheduleOp,
                              mPortStreamV19, callbackAt >>
         ELSE LET len == Min(framesPerBuffer, CommonlyAvailForPut)
                  dropout == Dropout(len, framesPerBuffer, inputError)
                  intervals == IF dropout THEN << framesPerBuffer - len >>
                               ELSE << >>
              IN  /\ elapsedSum + framesPerBuffer * SamplePeriod <= MaxSum
                  /\ mLostCaptureIntervals' = mLostCaptureIntervals \o intervals
                  /\ mLostSamples' = mLostSamples + (framesPerBuffer - len)
                  /\ captureAvail' = [i \in CaptureTracks |->
                                         captureAvail[i] + len]
                  /\ lastCapture' = [frames |-> framesPerBuffer, len |-> len,
                                     intervals |-> intervals,
                                     lost |-> framesPerBuffer - len]
                  /\ TrackTimeUpdate(framesPerBuffer * SamplePeriod)
                  /\ elapsedSum' = elapsedSum + framesPerBuffer * SamplePeriod
                  /\ scheduleOp' = "TrackTimeUpdate"
                  /\ CallbackReturn(IF PassIsComplete THEN "paComplete"
                                    ELSE "paContinue")
   /\ UNCHANGED << mDetectDropouts, mDetectUpstreamDropouts, totalCorrection,
                   mDuration, mPosition, mLatencyCorrected,
                   mRecordingException, silence, appended, discarded,
                   outOfOrder, caught, lastPass, mT0, mT1, mPlayMode,
                   startTime, updateVars, playVars, pauseVars, otherVars, mainAt,
                   mSuspendAudioThread, tokenVars, ringBuffers, captured,
                   tracks, abortJoins, midiVars, audioVars, seekToken,
                   mUpdatingMeters, uiVars, loopFlags, scrubVars >>

\* StopStream up to its wait for the last pass of FillBuffers: the loop of
\* the buffering thread is told to stop, the stream is aborted and closed
RecStopStream ==
   /\ mainAt = "idle"
   /\ mStreamToken > 0
   /\ mAudioThreadFillBuffersLoopRunning' = FALSE
   /\ mPortStreamV19' = "NULL"
   /\ mAudioThreadShouldCallFillBuffersOnce' = TRUE
   /\ mainAt' = "stopWait"
   /\ UNCHANGED << mSuspendAudioThread, tokenVars, ringBuffers, captured,
                   tracks, abortJoins, midiVars, audioVars, callbackVars,
                   uiVars, scrubVars, scheduleVars, workVars >>

\* StopStream after the last pass: the buffers are freed, the tracks
\* flushed, and the cleanup clears the recording exception and the
\* recording schedule
RecStopStreamEnd ==
   /\ mainAt = "stopWait"
   /\ ~mAudioThreadShouldCallFillBuffersOnce
   /\ ringBuffers' = "releasedByStop"
   /\ captureAvail' = NoSamples
   /\ mStreamToken' = 0
   /\ tracks' = NoTracks
   /\ stopCompleted' = TRUE
   /\ mainAt' = "idle"
   /\ mRecordingException' = FALSE
   /\ caught' = "none"
   /\ totalCorrection' = 0
   /\ mDuration' = 0
   /\ mPosition' = 0
   /\ mLatencyCorrected' = FALSE
   /\ UNCHANGED << mDetectDropouts, mDetectUpstreamDropouts, mLostSamples,
                   mLostCaptureIntervals, silence, appended, discarded,
                   outOfOrder, lastPass, lastCapture, mSuspendAudioThread,
                   mNextStreamToken, returned, mPortStreamV19, captured,
                   abortJoins, midiVars, audioVars, callbackVars, uiVars,
                   loopFlags, scrubVars, scheduleVars, updateVars,
                   playVars, pauseVars, otherVars >>

(***************************************************************************)
(* The paused stream: a play with a recording beside it (an overdub), or a *)
(* scrub, that the UI pauses, resumes and seeks. The callback is one step, *)
(* but for the seek, in which it waits for a pass of the buffering thread. *)
(* The times of the overdub are whole numbers of half sample periods; the  *)
(* track time of the scrub is the rational Consumer reports.               *)
(***************************************************************************)
\* FillBuffers of the overdub: the playback part and then the capture part,
\* in which no Append throws
PauseFillBuffers ==
   /\ ~tracks.scrub
   /\ ringBuffers = "allocated"
   /\ mAudioThreadShouldCallFillBuffersOnce
         \/ mAudioThreadFillBuffersLoopRunning
   /\ FillPlayback
   /\ FillCapture
   /\ mAudioThreadShouldCallFillBuffersOnce' = FALSE
   /\ UNCHANGED << period, trackFrames, mWarpedLength, drainedTotal,
                   callbackFrames, underran, lastCallback,
                   mDetectDropouts, mDetectUpstreamDropouts, mLostSamples,
                   mLostCaptureIntervals, totalCorrection, mDuration,
                   mRecordingException, caught, lastCapture,
                   mAudioThreadFillBuffersLoopRunning, updateVars,
                   pauseVars, otherVars, scheduleVars, scrubVars, transportVars >>

\* StartStream of a scrub waits for the first pass and nudges the queue
PauseStartStreamWait ==
   /\ tracks.scrub
   /\ mainAt = "startPrime"
   /\ StartStreamWait

\* the UI and the buffering thread of a scrub
PauseEnqueueScrub == tracks.scrub /\ EnqueueScrub

PauseScrubFillBuffers == tracks.scrub /\ ScrubFillBuffers

PauseTransformerWake == tracks.scrub /\ TransformerWake

PauseFillBuffersLoopEnd == tracks.scrub /\ FillBuffersLoopEnd

\* a callback that never returns early
NeverPaused == FALSE

\* the test of the callback for its early return
CallbackPaused == mPaused

\* the time Consumer returns: Entry::GetTime as a rational, 0/0 for the NaN
ConsumerTime(entry) ==
   IF entry.mDuration = 0 THEN << 0, 0 >> ELSE GetTime(entry, mRate)

\* Mixer::Reposition: the frames of the track from the time on
Reposition(time) ==
   Max(0, trackFrames - Trunc(2 * (time - mT0) + period, 2 * period))

\* what the callback leaves alone when it returns early
CallbackKeeps ==
   UNCHANGED << mTime, elapsedSum, scheduleOp, startTime, mSeek, playAvail,
                drainedTotal, callbackFrames, underran, mixerLeft,
                mWarpedTime, captureAvail, mLostSamples,
                mLostCaptureIntervals, lastCapture, queueVars, mNudged,
                mSuspendAudioThread, loopFlags, mPortStreamV19, callbackAt >>

\* the callback of a scrub that is not paused: a pending seek is dropped,
\* Consumer marks the frames played and gives the track time
CallbackScrub(framesPerBuffer) ==
   /\ \E frames \in 0 .. framesPerBuffer :
         /\ Consumer(frames)
         /\ mTime' = ConsumerTime(
               ConsumeLoop(mEntries, mTrailingIdx, frames).entries[
                  ConsumeLoop(mEntries, mTrailingIdx, frames).trailing])
   /\ mSeek' = FALSE
   /\ scheduleOp' = "Consumer"
   /\ lastCallback' = [NoCallback EXCEPT !.result = "paContinue"]
   /\ CallbackReturn("paContinue")
   /\ UNCHANGED << elapsedSum, startTime, playAvail, drainedTotal,
                   callbackFrames, underran, mixerLeft, mWarpedTime,
                   captureAvail, mLostSamples, mLostCaptureIntervals,
                   lastCapture, mSuspendAudioThread, loopFlags >>

\* the callback finds a seek: CallbackDoSeek up to its wait for the pass it
\* asks for
CallbackDoSeek ==
   /\ mSuspendAudioThread = "free"
   /\ \E seek \in (-MaxSeek .. MaxSeek) \ {0} :
         mTime' = ClampTrackTime(mTime + seek)
   /\ mSuspendAudioThread' = "callback"
   /\ mSeek' = FALSE
   /\ mWarpedTime' = Abs(mTime' - mT0)
   /\ mixerLeft' = Reposition(mTime')
   /\ playAvail' = 0
   /\ mAudioThreadFillBuffersLoopRunning' = FALSE
   /\ mAudioThreadShouldCallFillBuffersOnce' = TRUE
   /\ startTime' = mTime'
   /\ elapsedSum' = 0
   /\ scheduleOp' = "Seek"
   /\ callbackAt' = "seekReload"
   /\ lastCallback' = [NoCallback EXCEPT !.result = "paContinue"]
   /\ UNCHANGED << drainedTotal, callbackFrames, underran, captureAvail,
                   mLostSamples, mLostCaptureIntervals, lastCapture,
                   queueVars, mNudged, mPortStreamV19 >>

\* the callback of an overdub that is neither paused nor asked to seek: it
\* takes the frames there are from the playback ring buffer, puts what the
\* capture ring buffers have room for and updates the track time
CallbackOverdub(framesPerBuffer, inputError) ==
   LET len == Min(playAvail, framesPerBuffer)
       put == Min(framesPerBuffer, CommonlyAvailForPut)
       intervals == IF Dropout(put, framesPerBuffer, inputError)
                    THEN << framesPerBuffer - put >> ELSE << >>
       result == IF PassIsComplete THEN "paComplete" ELSE "paContinue"
   IN  /\ playAvail' = playAvail - len
       /\ drainedTotal' = drainedTotal + len
       /\ callbackFrames' = callbackFrames + framesPerBuffer
       /\ underran' = (underran \/ (/\ len < framesPerBuffer
                                     /\ mWarpedTime < mWarpedLength))
       /\ lastCallback' = [paused |-> FALSE, len |-> len,
                           complete |-> PassIsComplete, result |-> result]
       /\ mLostCaptureIntervals' = mLostCaptureIntervals \o intervals
       /\ mLostSamples' = mLostSamples + (framesPerBuffer - put)
       /\ captureAvail' = [i \in CaptureTracks |-> captureAvail[i] + put]
       /\ lastCapture' = [frames |-> framesPerBuffer, len |-> put,
                          intervals |-> intervals,
                          lost |-> framesPerBuffer - put]
       /\ TrackTimeUpdate(framesPerBuffer * period)
       /\ elapsedSum' = elapsedSum + framesPerBuffer * period
       /\ scheduleOp' = "TrackTimeUpdate"
       /\ CallbackReturn(result)
       /\ UNCHANGED << startTime, mSeek, mixerLeft, mWarpedTime, queueVars,
                       mNudged, mSuspendAudioThread, loopFlags >>

\* the hardware callback: it counts its frames, and those of a paused
\* stream apart, and takes the offset of the clocks; paused it returns at
\* once
PauseCallback ==
   /\ mPortStreamV19 = "active"
   /\ callbackAt = "idle"
   /\ IF Interactive THEN TRUE ELSE mTime <= mT1 + MaxOverrun
   /\ \E framesPerBuffer \in 1 .. MaxFramesPerBuffer,
         offset \in 0 .. MaxClockOffset,
         inputError \in {FALSE, mDetectUpstreamDropouts} :
         /\ mNumFrames + framesPerBuffer <= MaxNumFrames
         /\ mSystemMinusAudioTime' = offset
         /\ mNumPauseFrames' = IF mPaused \/ mStreamToken <= 0
                               THEN mNumPauseFrames + framesPerBuffer
                               ELSE mNumPauseFrames
         /\ mNumFrames' = mNumFrames + framesPerBuffer
         /\ IF CallbackPaused
            THEN /\ lastCallback' = [NoCallback EXCEPT
                                       !.paused = TRUE,
                                       !.result = "paContinue"]
                 /\ CallbackKeeps
            ELSE IF Interactive THEN CallbackScrub(framesPerBuffer)
            ELSE IF mSeek THEN CallbackDoSeek
            ELSE CallbackOverdub(framesPerBuffer, inputError)
   /\ UNCHANGED << period, trackFrames, mWarpedLength, putTotal, mT0, mT1,
                   mPlayMode, updateVars, mDetectDropouts,
                   mDetectUpstreamDropouts, totalCorrection, mDuration,
                   mPosition, mLatencyCorrected, mRecordingException,
                   silence, appended, discarded, outOfOrder, caught,
                   lastPass, mainAt, tokenVars, ringBuffers, captured,
                   tracks, abortJoins, midiVars, audioVars, seekToken,
                   mUpdatingMeters, mPaused, mUpdateMeters, otherVars >>

(***************************************************************************)
(* The functions of the playback schedule, called with the times and the   *)
(* mode StartStream chose and the track time the callback left             *)
(***************************************************************************)
\* the track times a caller of ClampTrackTime may pass: the times of the
\* project and those a seek or the end of a play reaches beyond them
TrackTimes == -MaxSeek .. MaxTime + MaxSeek

\* StartStream with a start time of the options, CallbackDoSeek or
\* LimitTrackTime calls ClampTrackTime
ClampTrackTimeCall ==
   /\ \E trackTime \in TrackTimes :
         /\ callOp' = "ClampTrackTime"
         /\ callArg' = trackTime
         /\ callResult' = ClampTrackTime(trackTime)
   /\ UNCHANGED << scrubVars, loopFlags, transportVars, scheduleVars,
                   updateVars, playVars, recVars, pauseVars, midiOutVars,
                   allocVars, ringVars, doSeek, midiRunVars, fillVars,
                   clockVars, handleWait >>

\* the callback calls PassIsComplete
PassIsCompleteCall ==
   /\ callOp' = "PassIsComplete"
   /\ callArg' = mTime
   /\ callResult' = PassIsComplete
   /\ UNCHANGED << scrubVars, loopFlags, transportVars, scheduleVars,
                   updateVars, playVars, recVars, pauseVars, midiOutVars,
                   allocVars, ringVars, doSeek, midiRunVars, fillVars,
                   clockVars, handleWait >>

(***************************************************************************)
(* The MIDI output synchronizer.  The unit of the times of this part is    *)
(* the buffer period of the hardware callback, a frame; the settle delay   *)
(* of 0.22 s is three of them.                                             *)
(***************************************************************************)
\* the note tracks of the model: notes with their times, durations, channels
\* and pitches
NoteTracks ==
   { << [time |-> 0, dur |-> 1, chan |-> 0, pitch |-> 1],
        [time |-> 1, dur |-> 1, chan |-> 0, pitch |-> 2],
        [time |-> 2, dur |-> 2, chan |-> 1, pitch |-> 1] >>,
     << [time |-> 1, dur |-> 3, chan |-> 0, pitch |-> 1],
        [time |-> 1, dur |-> 1, chan |-> 1, pitch |-> 2] >> }

\* an iterator that was ended, or never made
NoIterator ==
   [live |-> FALSE, offset |-> 0, on |-> 0, offs |-> {}, index |-> 0]

\* mNextEvent = NULL
NullEvent == [kind |-> "NULL", index |-> 0]

\* Alg_event::get_end_time of the note i of the track
EndTime(i) == noteTrack[i].time + noteTrack[i].dur

\* MidiLoopOffset after so many passes
MidiLoopOffset(passes) == passes * (mT1 - mT0)

\* the special event gAllNotesOff
gAllNotesOff == [kind |-> "gAllNotesOff", index |-> 0]

\* the state of the synchronizer that its functions work on
Sync ==
   [it |-> mIterator, ev |-> mNextEvent, time |-> mNextEventTime,
    isOn |-> mNextIsNoteOn, passes |-> mMidiLoopPasses,
    pending |-> mPendingNotesOff, out |-> midiOut]

\* the functions return: the state is stored
SetSync(M) ==
   /\ mIterator' = M.it
   /\ mNextEvent' = M.ev
   /\ mNextEventTime' = M.time
   /\ mNextIsNoteOn' = M.isOn
   /\ mMidiLoopPasses' = M.passes
   /\ mPendingNotesOff' = M.pending
   /\ midiOut' = M.out

\* Alg_iterator::begin_seq for the track, with an offset
BeginSeq(offset) ==
   [live |-> TRUE, offset |-> offset, on |-> 1, offs |-> {}, index |-> 0]

\* Alg_iterator::next: the next event in the order of the times, a note-off
\* that was requested before a note-on of the same time
IteratorNext(it) ==
   LET hasOn == it.on <= Len(noteTrack)
       off == CHOOSE i \in it.offs :
                 \A j \in it.offs :
                    \/ EndTime(i) < EndTime(j)
                    \/ EndTime(i) = EndTime(j) /\ i <= j
       takeOff == IF it.offs = {} THEN FALSE
                  ELSE IF hasOn THEN EndTime(off) <= noteTrack[it.on].time
                  ELSE TRUE
   IN  IF takeOff
       THEN [found |-> TRUE, index |-> off, isOn |-> FALSE,
             it |-> [it EXCEPT !.offs = @ \ {off}, !.index = off]]
       ELSE IF hasOn
       THEN [found |-> TRUE, index |-> it.on, isOn |-> TRUE,
             it |-> [it EXCEPT !.on = @ + 1, !.index = it.on]]
       ELSE [found |-> FALSE, index |-> 0, isOn |-> FALSE, it |-> it]

\* AudioIO::GetNextEvent.  The time of gAllNotesOff, mT1 and the offset less
\* ALG_EPS, is kept as mT1 and the offset: Due takes the ALG_EPS off
GetNextEvent(M) ==
   IF ~M.it.live THEN [M EXCEPT !.ev = NullEvent]
   ELSE LET n == IteratorNext(M.it)
            end == mT1 + MidiLoopOffset(M.passes)
            time == IF n.found
                    THEN (IF n.isOn THEN noteTrack[n.index].time
                          ELSE EndTime(n.index)) + M.it.offset
                    ELSE end + 1
        IN  IF time > end
            THEN [M EXCEPT !.ev = gAllNotesOff, !.time = end,
                           !.isOn = TRUE, !.it = NoIterator]
            ELSE [M EXCEPT !.ev = [kind |-> "event", index |-> n.index],
                           !.time = time, !.isOn = n.isOn, !.it = n.it]

\* mNextEventTime < time, for a time that is a whole number of frames
Due(M, time) ==
   IF M.ev = gAllNotesOff THEN M.time <= time ELSE M.time < time

\* a message written with Pm_WriteShort: a note-on ("on"), a note-on of the
\* velocity 0 ("off") or the controller message all-notes-off ("control"),
\* with the time and the index of the event and the loop pass it was sent
\* in, and the caller ("event", or the caller of AllNotesOff)
Message(kind, chan, pitch, time, index, pass, from) ==
   [kind |-> kind, chan |-> chan, pitch |-> pitch, time |-> time,
    index |-> index, pass |-> pass, from |-> from]

\* AudioIO::AllNotesOff: a note-off for each note-on not yet paired, then
\* the controller message to each channel
AllNotesOff(M, from) ==
   [M EXCEPT
      !.pending = << >>,
      !.out = @ \o [k \in 1 .. Len(M.pending) |->
                      Message("off", M.pending[k][1], M.pending[k][2], 0, 0,
                              M.passes, from)]
                \o [chan \in 1 .. NumChannels |->
                      Message("control", chan - 1, 0, 0, 0, M.passes, from)]]

\* std::find and erase: the first of the pairs equal to the pair is removed
ErasePair(pending, pair) ==
   IF \E k \in 1 .. Len(pending) : pending[k] = pair
   THEN LET first == CHOOSE k \in 1 .. Len(pending) :
                        /\ pending[k] = pair
                        /\ \A j \in 1 .. k - 1 : pending[j] # pair
        IN  [k \in 1 .. Len(pending) - 1 |->
               IF k < first THEN pending[k] ELSE pending[k + 1]]
   ELSE pending

\* an OutputEvent that plays a note-off only when the track is heard
PlaysIfHeard(isOn) == trackAudible

\* OutputEvent: the test that lets the event be played
Plays(isOn) == trackAudible \/ ~isOn

\* OutputEvent for an event that is a note
OutputNote(M, send) ==
   LET e == noteTrack[M.ev.index]
   IN  IF Plays(M.isOn) /\ ~send
       THEN IF M.isOn
            THEN [M EXCEPT
                    !.it.offs = @ \cup {M.ev.index},
                    !.pending = Append(@, << e.chan, e.pitch >>),
                    !.out = Append(@, Message("on", e.chan, e.pitch, M.time,
                                              M.ev.index, M.passes,
                                              "event"))]
            ELSE [M EXCEPT
                    !.pending = ErasePair(@, << e.chan, e.pitch >>),
                    !.out = Append(@, Message("off", e.chan, e.pitch, M.time,
                                              M.ev.index, M.passes,
                                              "event"))]
       ELSE M

RECURSIVE OutputEvent(_, _), PrepareMidiIterator(_, _, _), SkipToStart(_, _, _)
\* AudioIO::OutputEvent; send is mSendMidiState
OutputEvent(M, send) ==
   IF M.ev = gAllNotesOff
   THEN IF Looping
        THEN PrepareMidiIterator(
                [AllNotesOff(M, "loop") EXCEPT !.passes = @ + 1], FALSE,
                MidiLoopOffset(M.passes + 1))
        ELSE [AllNotesOff(M, "end") EXCEPT !.ev = NullEvent]
   ELSE OutputNote(M, send)

\* the loop of PrepareMidiIterator over the events before mT0
SkipToStart(M, send, offset) ==
   IF M.ev # NullEvent /\ M.time < mT0 + offset
   THEN SkipToStart(GetNextEvent(IF send THEN OutputEvent(M, TRUE) ELSE M),
                    send, offset)
   ELSE M

\* AudioIO::PrepareMidiIterator
PrepareMidiIterator(M, send, offset) ==
   SkipToStart(GetNextEvent([M EXCEPT !.it = BeginSeq(offset)]), send,
               offset)

\* AudioIO::AudioTime
AudioTime == mT0 + mNumFrames

\* AudioIO::PauseTime
PauseTime == mNumPauseFrames

\* the loop of FillMidiBuffers over the events that are due
RECURSIVE OutputDue(_, _)
OutputDue(M, time) ==
   IF M.ev # NullEvent /\ Due([M EXCEPT !.time = @ + PauseTime], time)
   THEN OutputDue(GetNextEvent(OutputEvent(M, FALSE)), time)
   ELSE M

\* a FillMidiBuffers that sends all-notes-off each time it finds the pause
AlwaysOff == FALSE

\* FillMidiBuffers: the latch that lets the pause send all-notes-off once
PauseSeen == mMidiPaused

\* MidiTime, less the second it runs ahead and the time paused: the time
\* of the last callback and what the clock has advanced since, which the
\* offset of the clocks stands for
MidiRealTime == AudioTime - PauseTime + mSystemMinusAudioTime

\* AudioIO::FillMidiBuffers
FillMidiBuffers ==
   IF mPaused
   THEN /\ mMidiPaused' = TRUE
        /\ IF ~PauseSeen THEN SetSync(AllNotesOff(Sync, "pause"))
           ELSE UNCHANGED << mIterator, mNextEvent, mNextEventTime,
                             mNextIsNoteOn, mMidiLoopPasses,
                             mPendingNotesOff, midiOut >>
        /\ UNCHANGED mMidiOutputComplete
   ELSE /\ mMidiPaused' = FALSE
        /\ SetSync(OutputDue(Sync, AudioTime))
        /\ mMidiOutputComplete' =
              (PlayingStraight /\ MidiRealTime >= mT1 + loopDelay)

\* what no step of the MIDI output changes
midiRest ==
   << scrubVars, loopFlags, mSuspendAudioThread, tokenVars, ringBuffers,
      captured, tracks, abortJoins, audioVars, callbackVars, mSeek,
      mUpdateMeters, mT0, mT1, mPlayMode, scheduleOp, startTime, elapsedSum,
      updateVars, playVars, recVars, callVars, allocVars, ringVars,
      doSeek, midiAt, fillVars, clockVars, handleWait, noteTrack >>

\* MidiThread::Entry: a turn of the loop begins
MidiThreadBegin ==
   /\ ~mMidiThreadFillBuffersLoopActive
   /\ mMidiThreadFillBuffersLoopActive' = TRUE
   /\ UNCHANGED << midiRest, callbackRan, mainAt, mPortStreamV19, mMidiStream,
                   mMidiStreamActive, mMidiThreadFillBuffersLoopRunning,
                   mPaused, mTime, pauseVars, trackAudible, mIterator,
                   mNextEvent, mNextEventTime, mNextIsNoteOn,
                   mMidiLoopPasses, mMidiPaused, mPendingNotesOff,
                   mMidiOutputComplete, midiOut, pauseCount >>

\* MidiThread::Entry: the rest of the turn
MidiThreadFill ==
   /\ mMidiThreadFillBuffersLoopActive
   /\ mMidiThreadFillBuffersLoopActive' = FALSE
   /\ IF mMidiThreadFillBuffersLoopRunning /\ mNumFrames > 0
      THEN FillMidiBuffers
      ELSE UNCHANGED << mIterator, mNextEvent, mNextEventTime,
                        mNextIsNoteOn, mMidiLoopPasses, mMidiPaused,
                        mPendingNotesOff, mMidiOutputComplete, midiOut >>
   /\ UNCHANGED << midiRest, callbackRan, mainAt, mPortStreamV19, mMidiStream,
                   mMidiStreamActive, mMidiThreadFillBuffersLoopRunning,
                   mPaused, mTime, pauseVars, trackAudible, pauseCount >>

\* the callback of a stream that plays the note track alone
MidiCallback ==
   /\ mPortStreamV19 = "active"
   /\ \E framesPerBuffer \in 1 .. MaxFrames :
         /\ mNumFrames + framesPerBuffer <= MaxMidiFrames
         /\ mNumFrames' = mNumFrames + framesPerBuffer
         /\ IF mPaused
            THEN /\ mNumPauseFrames' = mNumPauseFrames + framesPerBuffer
                 /\ UNCHANGED << mTime, mMidiOutputComplete, mPortStreamV19 >>
            ELSE /\ UNCHANGED mNumPauseFrames
                 /\ IF CallbackCompletes(0)
                    THEN /\ mMidiOutputComplete' = TRUE
                         /\ mPortStreamV19' = "finished"
                    ELSE UNCHANGED << mMidiOutputComplete, mPortStreamV19 >>
                 /\ TrackTimeUpdate(framesPerBuffer)
   /\ mSystemMinusAudioTime' \in 0 .. MaxClockOffset
   /\ callbackRan' = TRUE
   /\ UNCHANGED << midiRest, mainAt, midiVars, mPaused, trackAudible,
                   mIterator, mNextEvent, mNextEventTime, mNextIsNoteOn,
                   mMidiLoopPasses, mMidiPaused, mPendingNotesOff, midiOut,
                   pauseCount >>

\* AudioIO::SetPaused, and the count of the pauses
MidiSetPaused ==
   /\ mainAt = "idle"
   /\ mMidiStreamActive
   /\ mPaused \/ pauseCount < MaxPauses
   /\ mPaused' = ~mPaused
   /\ pauseCount' = IF mPaused THEN pauseCount ELSE pauseCount + 1
   /\ UNCHANGED << midiRest, callbackRan, mainAt, mPortStreamV19, midiVars, mTime,
                   pauseVars, trackAudible, mIterator, mNextEvent,
                   mNextEventTime, mNextIsNoteOn, mMidiLoopPasses,
                   mMidiPaused, mPendingNotesOff, mMidiOutputComplete,
                   midiOut >>

\* the UI mutes the track, or hides its channels (what it does once)
MidiSetAudible ==
   /\ mainAt = "idle"
   /\ mMidiStreamActive
   /\ trackAudible
   /\ trackAudible' = FALSE
   /\ UNCHANGED << midiRest, callbackRan, mainAt, mPortStreamV19, midiVars, mPaused,
                   mTime, pauseVars, mIterator, mNextEvent, mNextEventTime,
                   mNextIsNoteOn, mMidiLoopPasses, mMidiPaused,
                   mPendingNotesOff, mMidiOutputComplete, midiOut,
                   pauseCount >>

\* StopStream: the audio stream is aborted and the MIDI thread is asked to
\* stop filling
MidiStopStream ==
   /\ mainAt = "idle"
   /\ mMidiStream
   /\ mainAt' = "stopMidi"
   /\ mPortStreamV19' = "stopped"
   /\ mMidiStreamActive' = FALSE
   /\ mMidiThreadFillBuffersLoopRunning' = FALSE
   /\ UNCHANGED << midiRest, callbackRan, mMidiStream, mMidiThreadFillBuffersLoopActive,
                   mPaused, mTime, pauseVars, midiOutVars >>

\* StopStream: the MIDI thread is out of FillMidiBuffers; all notes are
\* turned off and the stream is closed
MidiStopStreamClose ==
   /\ mainAt = "stopMidi"
   /\ ~mMidiThreadFillBuffersLoopActive
   /\ mMidiOutputComplete' = TRUE
   /\ SetSync([AllNotesOff(Sync, "stop") EXCEPT !.it = NoIterator])
   /\ mMidiStream' = FALSE
   /\ mainAt' = "idle"
   /\ UNCHANGED << midiRest, callbackRan, mPortStreamV19, mMidiStreamActive,
                   mMidiThreadFillBuffersLoopRunning,
                   mMidiThreadFillBuffersLoopActive, mPaused, mTime,
                   pauseVars, trackAudible, mMidiPaused, pauseCount >>

(***************************************************************************)
(* StartStream: the loop that allocates the ring buffers and the mixers,   *)
(* and halves the sizes when memory runs out                               *)
(***************************************************************************)
\* the sample rates StartStream is called with in this part
AllocRates == {10, 25, 100, 150}

\* the tracks of the streams of this part
AllocTrackSets ==
   { [playback |-> TRUE, capture |-> FALSE, scrub |-> FALSE, midi |-> FALSE],
     [playback |-> FALSE, capture |-> TRUE, scrub |-> FALSE, midi |-> FALSE],
     [playback |-> TRUE, capture |-> TRUE, scrub |-> FALSE, midi |-> FALSE],
     [playback |-> TRUE, capture |-> FALSE, scrub |-> TRUE, midi |-> FALSE] }

\* (size_t)lrint(mRate * mPlaybackRingBufferSecs)
PlaybackBufferSize(secs) == lrint(streamRate * secs[1], secs[2])

\* (size_t)(mRate * mCaptureRingBufferSecs + 0.5)
CaptureBufferSize(secs) ==
   Trunc(2 * streamRate * secs[1] + secs[2], 2 * secs[2])

\* a double times 0.5
Halved(secs) == << secs[1], 2 * secs[2] >>

\* a catch block that leaves mPlaybackSamplesToCopy as it is
NotHalved(samples) == samples

\* mPlaybackSamplesToCopy /= 2
HalvedSamples(samples) == samples \div 2

\* StartStream gives up: StartStreamCleanup(), the message, return 0
AllocGiveUp ==
   /\ StartStreamCleanup
   /\ startReturn' = 0
   /\ mainAt' = "idle"

\* what the loop of the allocations leaves alone
allocRest ==
   << mSuspendAudioThread, mNextStreamToken, returned, stopCompleted,
      captured, tracks, abortJoins, midiVars, audioVars, callbackVars,
      uiVars, loopFlags, scrubVars, scheduleVars, updateVars, playVars,
      recVars, pauseVars, callVars, midiOutVars, ringVars, doSeek,
      midiRunVars, fillVars, clockVars, handleWait, streamRate >>

\* the try block: the playback buffers and mixers are made, or a
\* constructor throws std::bad_alloc
AllocPlayback ==
   /\ mainAt = "startAlloc"
   /\ IF tracks.playback
      THEN \E ok \in BOOLEAN :
              IF ok
              THEN /\ ringBuffers' = "playback"
                   /\ mainAt' = "startAllocCapture"
              ELSE /\ mainAt' = "startAllocCatch"
                   /\ UNCHANGED ringBuffers
      ELSE /\ mainAt' = "startAllocCapture"
           /\ UNCHANGED ringBuffers
   /\ UNCHANGED << allocRest, mStreamToken, mPortStreamV19,
                   mPlaybackRingBufferSecs, mPlaybackSamplesToCopy,
                   mCaptureRingBufferSecs, mMinCaptureSecsToCopy,
                   allocFailures, startReturn >>

\* the try block: the capture buffers are made unless they would hold fewer
\* than 100 samples, or a constructor throws std::bad_alloc; then the loop
\* is done
AllocCapture ==
   /\ mainAt = "startAllocCapture"
   /\ IF tracks.capture
      THEN IF CaptureBufferSize(mCaptureRingBufferSecs) < MinBufferSize
           THEN AllocGiveUp
           ELSE \E ok \in BOOLEAN :
                   /\ IF ok
                      THEN /\ ringBuffers' = "allocated"
                           /\ mainAt' = "startPrime"
                      ELSE /\ mainAt' = "startAllocCatch"
                           /\ UNCHANGED ringBuffers
                   /\ UNCHANGED << mStreamToken, mPortStreamV19,
                                   startReturn >>
      ELSE /\ ringBuffers' = "allocated"
           /\ mainAt' = "startPrime"
           /\ UNCHANGED << mStreamToken, mPortStreamV19, startReturn >>
   /\ UNCHANGED << allocRest, mPlaybackRingBufferSecs,
                   mPlaybackSamplesToCopy, mCaptureRingBufferSecs,
                   mMinCaptureSecsToCopy, allocFailures >>

\* catch (std::bad_alloc &): the buffers are let go, the sizes are halved
\* and the loop goes round again, unless a playback size is below 100
AllocCatch ==
   /\ mainAt = "startAllocCatch"
   /\ mPlaybackRingBufferSecs' = Halved(mPlaybackRingBufferSecs)
   /\ mPlaybackSamplesToCopy' = HalvedSamples(mPlaybackSamplesToCopy)
   /\ mCaptureRingBufferSecs' = Halved(mCaptureRingBufferSecs)
   /\ mMinCaptureSecsToCopy' = Halved(mMinCaptureSecsToCopy)
   /\ allocFailures' = allocFailures + 1
   /\ IF \/ PlaybackBufferSize(mPlaybackRingBufferSecs') < MinBufferSize
         \/ mPlaybackSamplesToCopy' < MinBufferSize
      THEN AllocGiveUp
      ELSE /\ ringBuffers' = "releasedByCleanup"
           /\ mainAt' = "startAlloc"
           /\ UNCHANGED << mStreamToken, mPortStreamV19, startReturn >>
   /\ UNCHANGED allocRest

(***************************************************************************)
(* The ring buffer between one producer and one consumer. The cursors      *)
(* count the samples ever written and ever read; a sample lies in the      *)
(* array at its cursor modulo the capacity. A call reads the cursor of the *)
(* other side when it begins and moves its own when it ends, and the other *)
(* side may run in between.                                                *)
(***************************************************************************)
\* no call of the ring buffer is under way
RingIdle == [at |-> "idle", op |-> "none", seen |-> 0, count |-> 0]

\* what the last Put and the last Get or Discard leave
NoRingCall == [op |-> "none", count |-> 0, actual |-> 0, avail |-> 0]

\* the position of a cursor in the array
Slot(cursor) == cursor % RingCapacity

\* RingBuffer::AvailForGet
AvailForGet == writeCursor - readCursor

\* RingBuffer::AvailForPut of this ring buffer
RingAvailForPut == RingCapacity - AvailForGet

\* a Put that copies all it is given
CopiesAll(count, avail) == count

\* the count a Put, a Get or a Discard copies or discards: up to `count',
\* truncated to what is available
Truncated(count, avail) == Min(count, avail)

\* the producer calls Put: it takes the free space from the cursors
RingPutBegin ==
   /\ putAt.at = "idle"
   /\ writeCursor < MaxRingTotal
   /\ \E count \in 0 .. MaxRingCount :
         putAt' = [at |-> "copy", op |-> "Put",
                   seen |-> RingCapacity - (writeCursor - readCursor),
                   count |-> count]
   /\ UNCHANGED << readCursor, writeCursor, getAt, ringPut, ringGot,
                   lastPut, lastGet >>

\* Put copies the samples, moves the write cursor and returns the count
RingPutEnd ==
   /\ putAt.at = "copy"
   /\ LET actual == Truncated(putAt.count, putAt.seen)
      IN  /\ writeCursor' = writeCursor + actual
          /\ ringPut' = ringPut + actual
          /\ lastPut' = [op |-> "Put", count |-> putAt.count,
                         actual |-> actual, avail |-> RingAvailForPut]
   /\ putAt' = RingIdle
   /\ UNCHANGED << readCursor, getAt, ringGot, lastGet >>

\* the consumer calls Get or Discard: it takes the filled part from the
\* cursors
RingGetBegin ==
   /\ getAt.at = "idle"
   /\ \E op \in {"Get", "Discard"}, count \in 0 .. MaxRingCount :
         getAt' = [at |-> "copy", op |-> op,
                   seen |-> writeCursor - readCursor, count |-> count]
   /\ UNCHANGED << readCursor, writeCursor, putAt, ringPut, ringGot,
                   lastPut, lastGet >>

\* Get copies the samples out, Discard does not; both move the read cursor
\* and return the count
RingGetEnd ==
   /\ getAt.at = "copy"
   /\ LET actual == Truncated(getAt.count, getAt.seen)
      IN  /\ readCursor' = readCursor + actual
          /\ ringGot' = ringGot + actual
          /\ lastGet' = [op |-> getAt.op, count |-> getAt.count,
                         actual |-> actual, avail |-> AvailForGet]
   /\ getAt' = RingIdle
   /\ UNCHANGED << writeCursor, putAt, ringPut, lastPut >>

\* what the calls of the ring buffer leave alone
ringRest ==
   << scrubVars, loopFlags, transportVars, scheduleVars, updateVars,
      playVars, recVars, pauseVars, callVars, midiOutVars, allocVars,
      doSeek, midiRunVars, fillVars, clockVars, handleWait >>

\* the producer's and the consumer's steps
RingPut == (RingPutBegin \/ RingPutEnd) /\ UNCHANGED ringRest

RingGet == (RingGetBegin \/ RingGetEnd) /\ UNCHANGED ringRest

(***************************************************************************)
(* The seek of a play: the callback of a play that is not paused, step by  *)
(* step through CallbackDoSeek, beside the loop of the buffering thread,   *)
(* the UI that leaves seeks and StopStream. The times are whole numbers of *)
(* sample periods.                                                         *)
(***************************************************************************)
\* CallbackDoSeek has not run
NoDoSeek ==
   [time |-> 0, seek |-> 0, seeks |-> 0, passes |-> 0, result |-> "none"]

\* what no step of the seek changes
seekRest ==
   << scrubVars, mainAt, tokenVars, ringBuffers, captured, tracks,
      abortJoins, midiVars, mUpdatingMeters, mPaused, mUpdateMeters, mT0,
      mT1, mPlayMode, updateVars, period, trackFrames, mWarpedLength,
      drainedTotal, callbackFrames, underran, lastCallback, recVars,
      pauseVars, callVars, midiOutVars, allocVars, ringVars, midiRunVars,
      fillVars, clockVars, handleWait >>

\* AudioThread::Entry: FillBuffers returns, and the request for one pass is
\* cleared if this was the pass asked for
SeekFillBuffers ==
   /\ audioAt \in {"fillOnce", "fillLoop"}
   /\ FillPlayback
   /\ mAudioThreadShouldCallFillBuffersOnce' =
         (audioAt # "fillOnce" /\ mAudioThreadShouldCallFillBuffersOnce)
   /\ audioAt' = "bottom"
   /\ doSeek' = IF callbackAt = "seekReload"
                THEN [doSeek EXCEPT !.passes = @ + 1] ELSE doSeek
   /\ UNCHANGED << seekRest, mAudioThreadFillBuffersLoopRunning,
                   mSuspendAudioThread, mPortStreamV19,
                   mAudioThreadFillBuffersLoopActive, callbackAt, seekToken,
                   mSeek, scheduleVars >>

\* the callback of the play: with a seek pending it enters CallbackDoSeek,
\* which reads the token of the stream; else it takes the frames there are
\* from the ring buffer, checks for completion and updates the track time
SeekCallback ==
   /\ callbackAt = "idle"
   /\ mPortStreamV19 = "active"
   /\ mTime <= mT1 + MaxOverrun
   /\ IF mStreamToken > 0 /\ tracks.playback /\ mSeek
      THEN /\ doSeek.seeks < MaxSeeks
           /\ seekToken' = mStreamToken
           /\ callbackAt' = "seekLock"
           /\ doSeek' = [doSeek EXCEPT !.seeks = @ + 1, !.result = "none"]
           /\ UNCHANGED << playAvail, mTime, elapsedSum, scheduleOp,
                           mPortStreamV19 >>
      ELSE \E framesPerBuffer \in 1 .. MaxFramesPerBuffer :
              LET len == Min(playAvail, framesPerBuffer)
                  result == IF CallbackCompletes(len) THEN "paComplete"
                            ELSE "paContinue"
              IN  /\ elapsedSum + framesPerBuffer * period <= MaxSeekSum
                  /\ playAvail' = playAvail - len
                  /\ TrackTimeUpdate(framesPerBuffer * period)
                  /\ elapsedSum' = elapsedSum + framesPerBuffer * period
                  /\ scheduleOp' = "TrackTimeUpdate"
                  /\ CallbackReturn(result)
                  /\ UNCHANGED << seekToken, doSeek >>
   /\ UNCHANGED << seekRest, loopFlags, mSuspendAudioThread, audioVars,
                   mSeek, startTime, mixerLeft, mWarpedTime, putTotal >>

\* a CallbackDoSeek that goes on with the stream of any token
AnyToken == TRUE

\* CallbackDoSeek: the stream is the one whose token was read
TokenKept == seekToken = mStreamToken

\* CallbackDoSeek takes the mutex; it returns paAbort when the stream is
\* another, else it stops the loop of the buffering thread
DoSeekLock ==
   /\ callbackAt = "seekLock"
   /\ mSuspendAudioThread = "free"
   /\ IF ~TokenKept
      THEN /\ CallbackReturn("paAbort")
           /\ doSeek' = [doSeek EXCEPT !.result = "paAbort"]
           /\ UNCHANGED << mSuspendAudioThread,
                           mAudioThreadFillBuffersLoopRunning >>
      ELSE /\ mSuspendAudioThread' = "callback"
           /\ mAudioThreadFillBuffersLoopRunning' = FALSE
           /\ callbackAt' = "seekPause"
           /\ UNCHANGED << mPortStreamV19, doSeek >>
   /\ UNCHANGED << seekRest, mAudioThreadShouldCallFillBuffersOnce,
                   audioVars, seekToken, mSeek, scheduleVars, mixerLeft,
                   mWarpedTime, playAvail, putTotal >>

\* a CallbackDoSeek that does not wait for the buffering thread
NoWaitForLoop == TRUE

\* the test of the loop in which CallbackDoSeek waits for the buffering
\* thread to leave its turn
LoopLeft == ~mAudioThreadFillBuffersLoopActive

\* CallbackDoSeek has waited for the buffering thread to leave its turn: it
\* sets the track time to the clamped sum with the seek, clears the seek and
\* initializes the accumulator of the real time
DoSeekTime ==
   /\ callbackAt = "seekPause"
   /\ LoopLeft
   /\ \E seek \in (-MaxSeek .. MaxSeek) \ {0} :
         /\ doSeek' = [doSeek EXCEPT !.time = mTime, !.seek = seek,
                                     !.passes = 0]
         /\ mTime' = ClampTrackTime(mTime + seek)
   /\ mSeek' = FALSE
   /\ mWarpedTime' = Abs(mTime' - mT0)
   /\ startTime' = mTime'
   /\ elapsedSum' = 0
   /\ scheduleOp' = "Seek"
   /\ callbackAt' = "seekWork"
   /\ UNCHANGED << seekRest, loopFlags, mSuspendAudioThread, mPortStreamV19,
                   audioVars, seekToken, mT0, mT1, mPlayMode, mixerLeft,
                   playAvail, putTotal >>

\* CallbackDoSeek repositions the mixers, discards what the playback ring
\* buffers hold and asks the buffering thread for one pass
DoSeekDiscard ==
   /\ callbackAt = "seekWork"
   /\ mixerLeft' = Reposition(mTime)
   /\ playAvail' = 0
   /\ mAudioThreadShouldCallFillBuffersOnce' = TRUE
   /\ callbackAt' = "seekReload"
   /\ UNCHANGED << seekRest, mAudioThreadFillBuffersLoopRunning,
                   mSuspendAudioThread, mPortStreamV19, audioVars, seekToken,
                   mSeek, scheduleVars, mWarpedTime, putTotal, doSeek >>

\* CallbackDoSeek has waited for the pass: the loop of the buffering thread
\* goes on, the locker gives up the mutex and the callback returns
\* paContinue
DoSeekReturn ==
   /\ callbackAt = "seekReload"
   /\ ~mAudioThreadShouldCallFillBuffersOnce
   /\ mAudioThreadFillBuffersLoopRunning' = TRUE
   /\ mSuspendAudioThread' = "free"
   /\ doSeek' = [NoDoSeek EXCEPT !.seeks = doSeek.seeks,
                                 !.result = "paContinue"]
   /\ CallbackReturn("paContinue")
   /\ UNCHANGED << seekRest, mAudioThreadShouldCallFillBuffersOnce,
                   audioVars, seekToken, mSeek, scheduleVars, mixerLeft,
                   mWarpedTime, playAvail, putTotal >>

(***************************************************************************)
(* FillBuffers: a turn of the do-loop of the playback, track by track      *)
(***************************************************************************)
\* no turn of the do-loop yet
NoTurn ==
   [frames |-> 0,
    processed |-> [i \in 1 .. NumFillTracks |-> 0],
    put |-> [i \in 1 .. NumFillTracks |-> 0]]

\* what a turn of the do-loop leaves alone
fillRest ==
   << scrubVars, loopFlags, transportVars, scheduleVars, updateVars,
      playVars, recVars, pauseVars, callVars, midiOutVars, allocVars,
      ringVars, doSeek, midiRunVars, clockVars, handleWait >>

\* a FillBuffers that never puts silence
NoSilence(frames, processed) == 0

\* the silence FillBuffers puts after what the mixer of a track produced
Silence(frames, processed) ==
   IF processed < frames /\ ~PlayingStraight THEN frames - processed ELSE 0

\* A turn of the do-loop of FillBuffers. The frames are those to produce
\* for each channel (all that is available when a looped play of a selection
\* without samples makes no progress); a mixer produces no more than it is
\* asked for, and is not run when there is no progress, in a silent scrub or
\* for no frames.
FillTurn ==
   \E frames \in 0 .. MaxFillFrames, progress \in BOOLEAN,
      silent \in BOOLEAN,
      produced \in [1 .. NumFillTracks -> 0 .. MaxFillFrames] :
      LET mixed == progress /\ ~silent /\ frames > 0
          put == [i \in 1 .. NumFillTracks |->
                    produced[i] + Silence(frames, produced[i])]
      IN  /\ silent => Interactive
          /\ ~progress => Looping /\ frames > 0
          /\ \A i \in 1 .. NumFillTracks :
                /\ produced[i] <= frames
                /\ ~mixed => produced[i] = 0
                /\ ringWritten[i] + put[i] <= MaxFillTotal
          /\ ringWritten' =
                [i \in 1 .. NumFillTracks |-> ringWritten[i] + put[i]]
          /\ lastTurn' =
                [frames |-> frames, processed |-> produced, put |-> put]
          /\ UNCHANGED fillRest

(***************************************************************************)
(* The MIDI thread, turn by turn, over the streams StartStream opens and   *)
(* StopStream closes                                                       *)
(***************************************************************************)
\* the state of the MIDI output that PrepareMidiIterator, OutputEvent and
\* AllNotesOff work on
syncVars ==
   << mIterator, mNextEvent, mNextEventTime, mNextIsNoteOn, mMidiLoopPasses,
      mPendingNotesOff, midiOut >>

\* what no step of these streams changes
midiRunRest ==
   << scrubVars, loopFlags, mSuspendAudioThread, ringBuffers, captured,
      tracks, abortJoins, audioVars, callbackVars, uiVars, mT0, mT1,
      mPlayMode, scheduleOp, startTime, elapsedSum, updateVars, playVars,
      recVars, callVars, allocVars, ringVars, doSeek, fillVars, clockVars, handleWait,
      noteTrack, trackAudible, pauseCount >>

\* a StartPortAudioStream that leaves the count of the frames as it is
FramesKept == mNumFrames

\* StartPortAudioStream: mNumFrames = 0
FramesReset == 0

\* StartStream, for a note track alone: StartPortAudioStream resets the
\* counts of the frames and opens the audio stream, or fails to open it
MidiRunStartOpen ==
   /\ mainAt = "idle"
   /\ ~IsBusy
   /\ mPortStreamV19 = "NULL"
   /\ mNextStreamToken < MaxStarts
   /\ mNumFrames' = FramesReset
   /\ mNumPauseFrames' = 0
   /\ mSystemMinusAudioTime' = MaxClockOffset
   /\ callbackRan' = FALSE
   /\ mTime' = mT0
   /\ \E successAudio \in BOOLEAN :
         mPortStreamV19' = IF successAudio THEN "stopped" ELSE "NULL"
   /\ mainAt' = "startMidi"
   /\ UNCHANGED << midiRunRest, tokenVars, midiVars, syncVars, mMidiPaused,
                   mMidiOutputComplete, midiAt >>

\* StartStream: StartPortMidiStream opens the MIDI stream, to which nothing
\* was written yet, prepares the iterator and sets the flag of the loop of
\* the MIDI thread; StartStream returns 0 when the audio stream was not
\* opened
MidiRunStartMidi ==
   /\ mainAt = "startMidi"
   /\ mMidiStream' = TRUE
   /\ mMidiStreamActive' = TRUE
   /\ mMidiPaused' = FALSE
   /\ mMidiOutputComplete' = FALSE
   /\ SetSync(PrepareMidiIterator(
                 [Sync EXCEPT !.passes = 0, !.out = << >>], TRUE, 0))
   /\ mMidiThreadFillBuffersLoopRunning' = TRUE
   /\ mainAt' = IF mPortStreamV19 = "NULL" THEN "idle" ELSE "startPa"
   /\ UNCHANGED << midiRunRest, tokenVars, mPortStreamV19,
                   mMidiThreadFillBuffersLoopActive, mTime, pauseVars,
                   midiRunVars >>

\* StartStream: the token is issued and Pa_StartStream starts the callbacks
MidiRunStartPa ==
   /\ mainAt = "startPa"
   /\ mNextStreamToken' = NextToken(mNextStreamToken)
   /\ mStreamToken' = NextToken(mNextStreamToken)
   /\ returned' = Append(returned, mStreamToken')
   /\ stopCompleted' = FALSE
   /\ mPortStreamV19' = "active"
   /\ mainAt' = "idle"
   /\ UNCHANGED << midiRunRest, midiVars, mTime, pauseVars, syncVars,
                   mMidiPaused, mMidiOutputComplete, midiRunVars >>

\* what the steps of the MIDI thread leave alone, but for FillMidiBuffers
midiEntryRest ==
   << midiRunRest, mainAt, tokenVars, mPortStreamV19, mMidiStream,
      mMidiStreamActive, mMidiThreadFillBuffersLoopRunning, mTime,
      pauseVars, callbackRan >>

\* MidiThread::Entry: a turn of the loop begins, the loop is marked active
MidiEntryBegin ==
   /\ midiAt = "sleep"
   /\ mMidiThreadFillBuffersLoopActive' = TRUE
   /\ midiAt' = "test"
   /\ UNCHANGED << midiEntryRest, syncVars, mMidiPaused,
                   mMidiOutputComplete >>

\* MidiThread::Entry: the tests of the flag and of the count of the frames
MidiEntryTest ==
   /\ midiAt = "test"
   /\ midiAt' =
         IF mMidiThreadFillBuffersLoopRunning /\ mNumFrames > 0
         THEN "fill" ELSE "clear"
   /\ UNCHANGED << midiEntryRest, mMidiThreadFillBuffersLoopActive,
                   syncVars, mMidiPaused, mMidiOutputComplete >>

\* MidiThread::Entry: FillMidiBuffers
MidiEntryFill ==
   /\ midiAt = "fill"
   /\ FillMidiBuffers
   /\ midiAt' = "clear"
   /\ UNCHANGED << midiEntryRest, mMidiThreadFillBuffersLoopActive >>

\* MidiThread::Entry: the loop is marked inactive and the thread sleeps
MidiEntryEnd ==
   /\ midiAt = "clear"
   /\ mMidiThreadFillBuffersLoopActive' = FALSE
   /\ midiAt' = "sleep"
   /\ UNCHANGED << midiEntryRest, syncVars, mMidiPaused,
                   mMidiOutputComplete >>

\* StopStream: the audio stream is aborted and closed, and the MIDI thread
\* is told to stop filling
MidiRunStop ==
   /\ mainAt = "idle"
   /\ mMidiStream
   /\ mPortStreamV19' = "NULL"
   /\ mMidiStreamActive' = FALSE
   /\ mMidiThreadFillBuffersLoopRunning' = FALSE
   /\ mainAt' = "stopMidi"
   /\ UNCHANGED << midiRunRest, tokenVars, mMidiStream,
                   mMidiThreadFillBuffersLoopActive, mTime, pauseVars,
                   syncVars, mMidiPaused, mMidiOutputComplete, midiRunVars >>

\* a StopStream that does not wait for the MIDI thread
NoWaitForMidi == TRUE

\* StopStream: while (mMidiThreadFillBuffersLoopActive) wxMilliSleep(1)
MidiLoopLeft == ~mMidiThreadFillBuffersLoopActive

\* StopStream: the loop of the MIDI thread is seen inactive; all notes are
\* turned off, the MIDI stream is closed and StopStream returns
MidiRunStopClose ==
   /\ mainAt = "stopMidi"
   /\ MidiLoopLeft
   /\ mMidiOutputComplete' = TRUE
   /\ SetSync([AllNotesOff(Sync, "stop") EXCEPT !.it = NoIterator])
   /\ mMidiStream' = FALSE
   /\ mStreamToken' = 0
   /\ stopCompleted' = TRUE
   /\ mainAt' = "idle"
   /\ UNCHANGED << midiRunRest, mNextStreamToken, returned, mPortStreamV19,
                   mMidiStreamActive, mMidiThreadFillBuffersLoopRunning,
                   mMidiThreadFillBuffersLoopActive, mTime, pauseVars,
                   mMidiPaused, midiRunVars >>

(***************************************************************************)
(* The hardware callback under ALSA: the estimate of the audio time as a   *)
(* slowly changing offset from the system time                             *)
(***************************************************************************)
\* what the timing of the callback leaves alone
alsaRest ==
   << scrubVars, loopFlags, transportVars, scheduleVars, updateVars,
      playVars, recVars, callVars, midiOutVars, allocVars, ringVars, doSeek,
      midiAt, fillVars, handleWait >>

\* the system clock advances by one of these between two callbacks: not at
\* all, by less than a sample period, by a sample period, by more than two
AlsaAdvances == {0, FramePeriod - 1, FramePeriod, 2 * FramePeriod + 1}

\* AudioIO::AudioTime, in the unit of the timing model
AlsaAudioTime == AudioTime * FramePeriod

\* StartPortAudioStream: mSystemMinusAudioTime = SystemTime() + 1000
ResetOffset == ResetSeconds * AlsaRate * FramePeriod

\* a callback that never moves the offset to the time it observes
NeverAhead(anow, enow) == FALSE

\* AudioCallback: if (anow > enow)
Ahead(anow, enow) == anow > enow

\* AudioCallback, mUsingAlsa: the offset is increased by the drift of the
\* frames of the callback before; the audio time is estimated from it; the
\* offset is set from the audio time observed when that is ahead of the
\* estimate; the frames are counted
AlsaCallback ==
   /\ mPortStreamV19 = "active"
   /\ \E framesPerBuffer \in 1 .. MaxAlsaBuffer, advance \in AlsaAdvances :
         LET rnow == systemTime + advance
             anow == AlsaAudioTime
             drifted == mSystemMinusAudioTime + mAudioFramesPerBuffer
             enow == rnow - drifted
         IN  /\ mNumFrames + framesPerBuffer <= MaxAlsaFrames
             /\ systemTime' = rnow
             /\ mSystemMinusAudioTime' =
                   IF Ahead(anow, enow) THEN rnow - anow ELSE drifted
             /\ mAudioFramesPerBuffer' = framesPerBuffer
             /\ mNumPauseFrames' =
                   IF mPaused \/ mStreamToken <= 0
                   THEN mNumPauseFrames + framesPerBuffer
                   ELSE mNumPauseFrames
             /\ mNumFrames' = mNumFrames + framesPerBuffer
   /\ callbackRan' = TRUE
   /\ UNCHANGED alsaRest

\* StartStream under ALSA: StartPortAudioStream resets the counts of the
\* frames and sets the offset way high, and the stream is started
AlsaStartStream ==
   /\ mainAt = "idle"
   /\ ~IsBusy
   /\ mPortStreamV19 = "NULL"
   /\ mNextStreamToken < 1
   /\ \E advance \in AlsaAdvances : systemTime' = systemTime + advance
   /\ mNumFrames' = FramesReset
   /\ mNumPauseFrames' = 0
   /\ mSystemMinusAudioTime' = systemTime' + ResetOffset
   /\ mAudioFramesPerBuffer' = 0
   /\ callbackRan' = FALSE
   /\ mNextStreamToken' = NextToken(mNextStreamToken)
   /\ mStreamToken' = NextToken(mNextStreamToken)
   /\ returned' = Append(returned, mStreamToken')
   /\ mPortStreamV19' = "active"
   /\ UNCHANGED << scrubVars, loopFlags, mainAt, mSuspendAudioThread,
                   stopCompleted, ringBuffers, captured, tracks, abortJoins,
                   midiVars, audioVars, callbackVars, uiVars, scheduleVars,
                   updateVars, playVars, recVars, callVars, midiOutVars,
                   allocVars, ringVars, doSeek, midiAt, fillVars,
                   handleWait >>

(***************************************************************************)
(* The hardware callback at the meters, step by step, against StopStream   *)
(***************************************************************************)
\* what the steps of the callback at the meters leave alone
meterRest ==
   << mainAt, mSuspendAudioThread, tokenVars, ringBuffers, captured, tracks,
      abortJoins, midiVars, audioVars, seekToken, uiVars, loopFlags,
      scrubVars, scheduleVars, workVars >>

\* the callback is in UpdateDisplay of a meter
InUpdateDisplay == callbackAt \in {"inUpdate", "outUpdate"}

\* AudioCallback begins: with a meter of the input it sets mUpdatingMeters
MeterCallback ==
   /\ callbackAt = "idle"
   /\ mPortStreamV19 = "active"
   /\ IF tracks.capture
      THEN /\ mUpdatingMeters' = TRUE
           /\ callbackAt' = "inTest"
      ELSE /\ callbackAt' = "body"
           /\ UNCHANGED mUpdatingMeters
   /\ UNCHANGED << meterRest, mPortStreamV19 >>

\* a callback that updates the meters whatever the flag
AlwaysAllowed == TRUE

\* AudioCallback: if (mUpdateMeters)
MeterAllowed == mUpdateMeters

\* the callback, having set mUpdatingMeters, tests mUpdateMeters
MeterTest ==
   /\ callbackAt \in {"inTest", "outTest"}
   /\ callbackAt' =
         IF callbackAt = "inTest"
         THEN (IF MeterAllowed THEN "inUpdate" ELSE "inLeave")
         ELSE (IF MeterAllowed THEN "outUpdate" ELSE "outLeave")
   /\ UNCHANGED << meterRest, mPortStreamV19, mUpdatingMeters >>

\* UpdateDisplay of the meter returns
MeterUpdateDisplay ==
   /\ InUpdateDisplay
   /\ callbackAt' = IF callbackAt = "inUpdate" THEN "inLeave" ELSE "outLeave"
   /\ UNCHANGED << meterRest, mPortStreamV19, mUpdatingMeters >>

\* the callback clears mUpdatingMeters: after the meter of the input it
\* goes on, after the meter of the output it returns
MeterLeave ==
   /\ callbackAt \in {"inLeave", "outLeave"}
   /\ mUpdatingMeters' = FALSE
   /\ IF callbackAt = "inLeave"
      THEN /\ callbackAt' = "body"
           /\ UNCHANGED mPortStreamV19
      ELSE \E result \in CallbackResults : CallbackReturn(result)
   /\ UNCHANGED meterRest

\* the callback between the meters: it returns when paused; with playback
\* tracks it comes to the meter of the output and sets mUpdatingMeters
MeterBody ==
   /\ callbackAt = "body"
   /\ IF mPaused
      THEN /\ CallbackReturn("paContinue")
           /\ UNCHANGED mUpdatingMeters
      ELSE IF tracks.playback
      THEN /\ mUpdatingMeters' = TRUE
           /\ callbackAt' = "outTest"
           /\ UNCHANGED mPortStreamV19
      ELSE /\ \E result \in CallbackResults : CallbackReturn(result)
           /\ UNCHANGED mUpdatingMeters
   /\ UNCHANGED meterRest

(***************************************************************************)
(* The waits of StartStream and of StopStream for a pass of FillBuffers of *)
(* a scrub, with the queue as it is                                        *)
(***************************************************************************)
\* what the steps of StopStream of a scrub leave alone
scrubStopRest ==
   << mSuspendAudioThread, tokenVars, ringBuffers, captured, tracks,
      abortJoins, midiVars, audioVars, callbackVars, uiVars, scheduleVars,
      workVars >>

\* StopStream of a scrub: the loop of the buffering thread is told to stop
\* and the queue is nudged
ScrubStopStreamLock ==
   /\ mainAt = "idle"
   /\ mStreamToken > 0
   /\ Nudge
   /\ mAudioThreadFillBuffersLoopRunning' = FALSE
   /\ mainAt' = "stopOnce"
   /\ UNCHANGED << scrubStopRest, mPortStreamV19,
                   mAudioThreadShouldCallFillBuffersOnce >>

\* StopStream of a scrub: the stream is aborted and closed and the buffering
\* thread is asked for one last pass
ScrubStopStreamOnce ==
   /\ mainAt = "stopOnce"
   /\ mPortStreamV19' = "NULL"
   /\ mAudioThreadShouldCallFillBuffersOnce' = TRUE
   /\ mainAt' = "stopWait"
   /\ UNCHANGED << scrubStopRest, scrubVars,
                   mAudioThreadFillBuffersLoopRunning >>

\* StopStream of a scrub waits for the last pass and nudges the queue
ScrubStopStreamWait ==
   /\ mainAt = "stopWait"
   /\ mAudioThreadShouldCallFillBuffersOnce
   /\ Nudge
   /\ UNCHANGED << scrubStopRest, mainAt, mPortStreamV19, loopFlags >>

(***************************************************************************)
(* Specifications                                                          *)
(***************************************************************************)
vars == << scrubVars, loopFlags, transportVars, scheduleVars, workVars >>

\* AudioIO::AudioIO: no stream is open and the threads idle
Constructed ==
   /\ mainAt = "idle"
   /\ tracks = NoTracks
   /\ mStreamToken = 0
   /\ mNextStreamToken = 0
   /\ returned = << >>
   /\ stopCompleted = FALSE
   /\ mPortStreamV19 = "NULL"
   /\ ringBuffers = "none"
   /\ captured = "none"
   /\ mMidiStream = FALSE
   /\ mMidiStreamActive = FALSE
   /\ mMidiThreadFillBuffersLoopRunning = FALSE
   /\ mMidiThreadFillBuffersLoopActive = FALSE
   /\ audioAt = "top"
   /\ mAudioThreadFillBuffersLoopActive = FALSE
   /\ callbackAt = "idle"
   /\ seekToken = 0
   /\ mUpdatingMeters = FALSE
   /\ mSeek = FALSE
   /\ mPaused = FALSE
   /\ mUpdateMeters = FALSE
   /\ mSuspendAudioThread = "free"
   /\ mAudioThreadShouldCallFillBuffersOnce = FALSE
   /\ mAudioThreadFillBuffersLoopRunning = FALSE

\* there is no scrub queue
NoQueue ==
   /\ mEntries = [i \in 0 .. Size - 1 |-> NewEntry]
   /\ mTrailingIdx = 0
   /\ mMiddleIdx = 0
   /\ mLeadingIdx = 0
   /\ mRate = 0
   /\ mLastScrubTimeMillis = -1
   /\ mLastTransformerTimeMillis = -1
   /\ mCredit = 0
   /\ mDebt = 0
   /\ mMaxDebt = 0
   /\ mNudged = FALSE
   /\ scrubOptions = CHOOSE o \in ScrubOptionsSet : TRUE
   /\ now = 0
   /\ transformerAt = "out"
   /\ lastCall = NoCall

\* PlaybackSchedule before any stream: the fields are zero
NoSchedule ==
   /\ mT0 = 0
   /\ mT1 = 0
   /\ mTime = 0
   /\ mPlayMode = "PLAY_STRAIGHT"
   /\ scheduleOp = "Init"
   /\ startTime = 0
   /\ elapsedSum = 0

\* TrackTimeUpdate is not running
NoUpdate ==
   /\ updateAt = "idle"
   /\ localTime = 0
   /\ localElapsed = 0
   /\ foundTotal = FALSE
   /\ total = 0

\* there is no recording
NoRecording ==
   /\ mDetectDropouts = TRUE
   /\ mDetectUpstreamDropouts = FALSE
   /\ mLostSamples = 0
   /\ mLostCaptureIntervals = << >>
   /\ totalCorrection = 0
   /\ mDuration = 0
   /\ mPosition = 0
   /\ mLatencyCorrected = FALSE
   /\ mRecordingException = FALSE
   /\ captureAvail = NoSamples
   /\ silence = NoSamples
   /\ appended = NoSamples
   /\ discarded = NoSamples
   /\ outOfOrder = InOrder
   /\ caught = "none"
   /\ lastPass = NoPass
   /\ lastCapture = NoCapture

\* there is no play
NoPlay ==
   /\ period = 1
   /\ trackFrames = 0
   /\ mixerLeft = 0
   /\ mWarpedTime = 0
   /\ mWarpedLength = 0
   /\ playAvail = 0
   /\ putTotal = 0
   /\ drainedTotal = 0
   /\ callbackFrames = 0
   /\ underran = FALSE
   /\ lastCallback = NoCallback

\* no function of the schedule was called
NoCalls ==
   /\ callOp = "none"
   /\ callArg = 0
   /\ callResult = 0

\* there is no MIDI output
NoMidiOut ==
   /\ noteTrack = << >>
   /\ trackAudible = TRUE
   /\ mIterator = NoIterator
   /\ mNextEvent = NullEvent
   /\ mNextEventTime = 0
   /\ mNextIsNoteOn = FALSE
   /\ mMidiLoopPasses = 0
   /\ mMidiPaused = FALSE
   /\ mPendingNotesOff = << >>
   /\ mMidiOutputComplete = FALSE
   /\ midiOut = << >>
   /\ pauseCount = 0

\* StartStream is not allocating
NoAlloc ==
   /\ streamRate = 0
   /\ mPlaybackRingBufferSecs = << 0, 1 >>
   /\ mPlaybackSamplesToCopy = 0
   /\ mCaptureRingBufferSecs = << 0, 1 >>
   /\ mMinCaptureSecsToCopy = << 0, 1 >>
   /\ allocFailures = 0
   /\ startReturn = -1

\* RingBuffer::RingBuffer: the buffer is empty
NoRing ==
   /\ readCursor = 0
   /\ writeCursor = 0
   /\ putAt = RingIdle
   /\ getAt = RingIdle
   /\ ringPut = 0
   /\ ringGot = 0
   /\ lastPut = NoRingCall
   /\ lastGet = NoRingCall

\* FillBuffers has put nothing into the playback ring buffers
NoFill ==
   /\ ringWritten = [i \in 1 .. NumFillTracks |-> 0]
   /\ lastTurn = NoTurn

\* the clock of the ALSA timing model was not read
NoClock ==
   /\ systemTime = 0
   /\ mAudioFramesPerBuffer = 0

\* the MIDI thread sleeps and no callback has run
NoMidiRun ==
   /\ midiAt = "sleep"
   /\ callbackRan = FALSE

\* the other parts of the program are at rest
NoOther ==
   /\ NoCalls
   /\ NoMidiOut
   /\ NoAlloc
   /\ NoRing
   /\ doSeek = NoDoSeek
   /\ NoMidiRun
   /\ NoFill
   /\ NoClock
   /\ handleWait = FALSE

\* no callback has run
NoFrames ==
   /\ mNumFrames = 0
   /\ mNumPauseFrames = 0
   /\ mSystemMinusAudioTime = 0

\* nothing works on samples
NoWork ==
   /\ mTimeTrack = FALSE
   /\ NoUpdate
   /\ NoPlay
   /\ NoRecording
   /\ NoFrames
   /\ NoOther

\* a scrub is being started: StartStream has made the queue and asks the
\* buffering thread for the first pass
ScrubInit ==
   /\ now = 0
   /\ \E rate \in Rates, o \in ScrubOptionsSet :
         ScrubQueueInit(0, 0, 0, rate, o)
   /\ transformerAt = "out"
   /\ lastCall = NoCall
   /\ mAudioThreadShouldCallFillBuffersOnce = TRUE
   /\ mAudioThreadFillBuffersLoopRunning = FALSE
   /\ mainAt = "startPrime"
   /\ tracks = [playback |-> TRUE, capture |-> FALSE, scrub |-> TRUE,
                midi |-> FALSE]
   /\ mStreamToken = -1
   /\ mNextStreamToken = 0
   /\ returned = << >>
   /\ stopCompleted = FALSE
   /\ mPortStreamV19 = "stopped"
   /\ ringBuffers = "allocated"
   /\ captured = "none"
   /\ abortJoins = TRUE
   /\ mMidiStream = FALSE
   /\ mMidiStreamActive = FALSE
   /\ mMidiThreadFillBuffersLoopRunning = FALSE
   /\ mMidiThreadFillBuffersLoopActive = FALSE
   /\ audioAt = "top"
   /\ mAudioThreadFillBuffersLoopActive = FALSE
   /\ callbackAt = "idle"
   /\ seekToken = 0
   /\ mUpdatingMeters = FALSE
   /\ mSeek = FALSE
   /\ mPaused = FALSE
   /\ mUpdateMeters = TRUE
   /\ mSuspendAudioThread = "free"
   /\ mT0 = 0
   /\ mT1 = 0
   /\ mTime = 0
   /\ mPlayMode = "PLAY_SCRUB"
   /\ scheduleOp = "Init"
   /\ startTime = 0
   /\ elapsedSum = 0
   /\ NoWork

ScrubNext ==
   \/ StartStreamWait
   \/ StartStreamRun
   \/ EnqueueScrub
   \/ ScrubFillBuffers
   \/ TransformerWake
   \/ FillBuffersLoopEnd
   \/ CallbackConsume

ScrubSpec == ScrubInit /\ [][ScrubNext]_vars

TransportInit ==
   /\ Constructed
   /\ abortJoins \in BOOLEAN
   /\ NoQueue
   /\ NoSchedule
   /\ NoWork

MainSteps ==
   \/ StartStream
   \/ StartStreamOpen
   \/ StartStreamAlloc
   \/ StartStreamPrime
   \/ StartStreamLoop
   \/ StartStreamPa
   \/ SetPaused
   \/ SeekStream
   \/ StopStream

StopSteps ==
   \/ StopStreamLock
   \/ StopStreamMeters
   \/ StopStreamAbort
   \/ StopStreamMidi
   \/ StopStreamOnce
   \/ StopStreamWait
   \/ StopStreamRelease
   \/ StopStreamEnd

AudioSteps ==
   \/ AudioLoopTop
   \/ AudioLoopTest
   \/ AudioTransformer
   \/ AudioTransformerWake
   \/ AudioFillReturn
   \/ AudioLoopBottom

CallbackSteps ==
   \/ AudioCallback
   \/ CallbackMeterIn
   \/ CallbackBody
   \/ CallbackDoSeekLock
   \/ CallbackDoSeekPause
   \/ CallbackDoSeekReload
   \/ CallbackMeterOut

TransportNext ==
   \/ MainSteps
   \/ StopSteps
   \/ AudioSteps
   \/ MidiLoop
   \/ CallbackSteps

TransportSpec == TransportInit /\ [][TransportNext]_vars

\* The threads are scheduled fairly. A call of StopStream goes on, and each
\* of its waits, which polls a flag between sleeps, ends when the flag is
\* clear again and again; the same holds of the callback and the waits of
\* CallbackDoSeek. The buffering thread runs, and a pass of FillBuffers ends
\* unless it waits for ever in Transformer. Nothing is assumed of what the
\* UI calls.
TransportFairSpec ==
   /\ TransportSpec
   /\ SF_vars(StopSteps)
   /\ WF_vars(AudioSteps)
   /\ SF_vars(AudioFillReturn)
   /\ WF_vars(MidiLoop)
   /\ SF_vars(CallbackSteps)

ScheduleInit ==
   /\ Constructed
   /\ abortJoins = TRUE
   /\ NoQueue
   /\ \E t0 \in Times, t1 \in Times, mode \in PlayModes :
         /\ mT0 = t0
         /\ mT1 = t1
         /\ mPlayMode = mode
         /\ mTime = t0
         /\ startTime = t0
   /\ elapsedSum = 0
   /\ scheduleOp = "Init"
   /\ NoWork

ScheduleNext ==
   \/ ScheduleStart
   \/ CallbackTrackTimeUpdate
   \/ CallbackSeek
   \/ CallbackScrubTime

ScheduleSpec == ScheduleInit /\ [][ScheduleNext]_vars

\* the schedule StartStream made, the callback, and the calls of the
\* functions of the schedule
ReadoutNext ==
   \/ CallbackTrackTimeUpdate
   \/ CallbackSeek
   \/ CallbackScrubTime
   \/ ClampTrackTimeCall
   \/ PassIsCompleteCall

ReadoutSpec == ScheduleInit /\ [][ReadoutNext]_vars

\* PlaybackSchedule::Init has made a schedule, with or without a time track
\* (scrubbing is not compatible with looping or a time track), and
\* StartStream or a seek has set a track time in its range
UpdateInit ==
   /\ Constructed
   /\ abortJoins = TRUE
   /\ NoQueue
   /\ \E t0 \in Times, t1 \in Times, mode \in PlayModes,
         timeTrack \in BOOLEAN, t \in Times :
         /\ mode \in {"PLAY_SCRUB", "PLAY_AT_SPEED"} => ~timeTrack
         /\ Min(t0, t1) <= t /\ t <= Max(t0, t1)
         /\ mT0 = t0
         /\ mT1 = t1
         /\ mPlayMode = mode
         /\ mTimeTrack = timeTrack
         /\ mTime = t
         /\ startTime = t
   /\ elapsedSum = 0
   /\ scheduleOp = "Init"
   /\ NoUpdate
   /\ NoPlay
   /\ NoRecording
   /\ NoFrames
   /\ NoOther

\* StartStream has made the schedule of a play without a time track of the
\* range t0 .. t1, opened the stream, allocated a ring buffer and a mixer
\* for the one playback track and asks the buffering thread for the first
\* pass
PlayInit ==
   /\ NoQueue
   /\ mAudioThreadShouldCallFillBuffersOnce = TRUE
   /\ mAudioThreadFillBuffersLoopRunning = FALSE
   /\ mainAt = "startPrime"
   /\ tracks = [playback |-> TRUE, capture |-> FALSE, scrub |-> FALSE,
                midi |-> FALSE]
   /\ mStreamToken = -1
   /\ mNextStreamToken = 0
   /\ returned = << >>
   /\ stopCompleted = FALSE
   /\ mPortStreamV19 = "stopped"
   /\ ringBuffers = "allocated"
   /\ captured = "none"
   /\ abortJoins = TRUE
   /\ mMidiStream = FALSE
   /\ mMidiStreamActive = FALSE
   /\ mMidiThreadFillBuffersLoopRunning = FALSE
   /\ mMidiThreadFillBuffersLoopActive = FALSE
   /\ audioAt = "top"
   /\ mAudioThreadFillBuffersLoopActive = FALSE
   /\ callbackAt = "idle"
   /\ seekToken = 0
   /\ mUpdatingMeters = FALSE
   /\ mSeek = FALSE
   /\ mPaused = FALSE
   /\ mUpdateMeters = TRUE
   /\ mSuspendAudioThread = "free"
   /\ \E t0 \in Times, t1 \in Times, looped \in BOOLEAN,
         p \in 1 .. MaxPeriod, short \in BOOLEAN :
         /\ t0 <= t1
         /\ looped => t0 < t1
         /\ mT0 = t0
         /\ mT1 = t1
         /\ mPlayMode = IF looped THEN "PLAY_LOOPED" ELSE "PLAY_STRAIGHT"
         /\ mTime = t0
         /\ startTime = t0
         /\ period = p
         /\ mWarpedLength = t1 - t0
         /\ trackFrames = IF short THEN Trunc(t1 - t0, 2 * p)
                          ELSE Trunc(t1 - t0 + p - 1, p)
   /\ mixerLeft = trackFrames
   /\ mWarpedTime = 0
   /\ elapsedSum = 0
   /\ scheduleOp = "Init"
   /\ mTimeTrack = FALSE
   /\ NoUpdate
   /\ playAvail = 0
   /\ putTotal = 0
   /\ drainedTotal = 0
   /\ callbackFrames = 0
   /\ underran = FALSE
   /\ lastCallback = NoCallback
   /\ NoRecording
   /\ NoFrames
   /\ NoOther

\* StartStream has made the schedules of a recording of the length d with
\* the latency correction c, opened the stream, allocated the ring buffers
\* of the capture tracks and asks the buffering thread for the first pass
RecInit ==
   /\ NoQueue
   /\ mAudioThreadShouldCallFillBuffersOnce = TRUE
   /\ mAudioThreadFillBuffersLoopRunning = FALSE
   /\ mainAt = "startPrime"
   /\ tracks = [playback |-> FALSE, capture |-> TRUE, scrub |-> FALSE,
                midi |-> FALSE]
   /\ mStreamToken = -1
   /\ mNextStreamToken = 0
   /\ returned = << >>
   /\ stopCompleted = FALSE
   /\ mPortStreamV19 = "stopped"
   /\ ringBuffers = "allocated"
   /\ captured = "none"
   /\ abortJoins = TRUE
   /\ mMidiStream = FALSE
   /\ mMidiStreamActive = FALSE
   /\ mMidiThreadFillBuffersLoopRunning = FALSE
   /\ mMidiThreadFillBuffersLoopActive = FALSE
   /\ audioAt = "top"
   /\ mAudioThreadFillBuffersLoopActive = FALSE
   /\ callbackAt = "idle"
   /\ seekToken = 0
   /\ mUpdatingMeters = FALSE
   /\ mSeek = FALSE
   /\ mPaused = FALSE
   /\ mUpdateMeters = TRUE
   /\ mSuspendAudioThread = "free"
   /\ \E c \in -MaxCorrection .. MaxCorrection, d \in 0 .. MaxDuration :
         /\ d - c >= 0
         /\ totalCorrection = c
         /\ mDuration = d
         /\ mT0 = 0
         /\ mT1 = d - c
   /\ mPlayMode = "PLAY_STRAIGHT"
   /\ mTime = 0
   /\ startTime = 0
   /\ elapsedSum = 0
   /\ scheduleOp = "Init"
   /\ mTimeTrack = FALSE
   /\ NoUpdate
   /\ NoPlay
   /\ mDetectDropouts \in BOOLEAN
   /\ mDetectUpstreamDropouts \in BOOLEAN
   /\ mLostSamples = 0
   /\ mLostCaptureIntervals = << >>
   /\ mPosition = 0
   /\ mLatencyCorrected = FALSE
   /\ mRecordingException = FALSE
   /\ captureAvail = NoSamples
   /\ silence = NoSamples
   /\ appended = NoSamples
   /\ discarded = NoSamples
   /\ outOfOrder = InOrder
   /\ caught = "none"
   /\ lastPass = NoPass
   /\ lastCapture = NoCapture
   /\ NoFrames
   /\ NoOther

\* a recording in which no Append throws
RecNext ==
   \/ RecFillBuffers
   \/ RecStartStream
   \/ RecStartStreamBusy
   \/ RecCallback
   \/ PlaySetPaused
   \/ RecStopStream
   \/ RecStopStreamEnd

RecSpec == RecInit /\ [][RecNext]_vars

\* a recording in which the storage can fail
RecFailNext ==
   \/ RecNext
   \/ RecFillBuffersThrows

RecFailSpec == RecInit /\ [][RecFailNext]_vars

PlayNext ==
   \/ PlayFillBuffers
   \/ PlayStartStream
   \/ PlayCallback
   \/ PlaySetPaused

PlaySpec == PlayInit /\ [][PlayNext]_vars

\* StartStream has opened the stream and allocated the ring buffers, and
\* asks the buffering thread for the first pass
PauseOpened ==
   /\ mAudioThreadShouldCallFillBuffersOnce = TRUE
   /\ mAudioThreadFillBuffersLoopRunning = FALSE
   /\ mainAt = "startPrime"
   /\ mStreamToken = -1
   /\ mNextStreamToken = 0
   /\ returned = << >>
   /\ stopCompleted = FALSE
   /\ mPortStreamV19 = "stopped"
   /\ ringBuffers = "allocated"
   /\ captured = "none"
   /\ abortJoins = TRUE
   /\ mMidiStream = FALSE
   /\ mMidiStreamActive = FALSE
   /\ mMidiThreadFillBuffersLoopRunning = FALSE
   /\ mMidiThreadFillBuffersLoopActive = FALSE
   /\ audioAt = "top"
   /\ mAudioThreadFillBuffersLoopActive = FALSE
   /\ callbackAt = "idle"
   /\ seekToken = 0
   /\ mUpdatingMeters = FALSE
   /\ mSeek = FALSE
   /\ mPaused = FALSE
   /\ mUpdateMeters = TRUE
   /\ mSuspendAudioThread = "free"
   /\ elapsedSum = 0
   /\ scheduleOp = "Init"
   /\ mTimeTrack = FALSE
   /\ NoUpdate
   /\ NoFrames
   /\ NoOther

\* the overdub: a straight play of the range 0 .. d - c of one track that
\* covers it, and a recording of the length d with the latency correction c
\* of a sample either way or none
OverdubInit ==
   /\ PauseOpened
   /\ NoQueue
   /\ tracks = [playback |-> TRUE, capture |-> TRUE, scrub |-> FALSE,
                midi |-> FALSE]
   /\ \E c \in {-SamplePeriod, 0, SamplePeriod},
         d \in {MaxDuration - SamplePeriod, MaxDuration} :
         /\ d - c >= 0
         /\ totalCorrection = c
         /\ mDuration = d
         /\ mT0 = 0
         /\ mT1 = d - c
   /\ mPlayMode = "PLAY_STRAIGHT"
   /\ mTime = 0
   /\ startTime = 0
   /\ period = SamplePeriod
   /\ mWarpedLength = mT1 - mT0
   /\ trackFrames = Trunc(mT1 - mT0 + period - 1, period)
   /\ mixerLeft = trackFrames
   /\ mWarpedTime = 0
   /\ playAvail = 0
   /\ putTotal = 0
   /\ drainedTotal = 0
   /\ callbackFrames = 0
   /\ underran = FALSE
   /\ lastCallback = NoCallback
   /\ mDetectDropouts = TRUE
   /\ mDetectUpstreamDropouts = FALSE
   /\ mLostSamples = 0
   /\ mLostCaptureIntervals = << >>
   /\ mPosition = 0
   /\ mLatencyCorrected = FALSE
   /\ mRecordingException = FALSE
   /\ captureAvail = NoSamples
   /\ silence = NoSamples
   /\ appended = NoSamples
   /\ discarded = NoSamples
   /\ outOfOrder = InOrder
   /\ caught = "none"
   /\ lastPass = NoPass
   /\ lastCapture = NoCapture

\* the scrub: StartStream has made the queue, for the options without a
\* minimum stutter
ScrubPauseInit ==
   /\ PauseOpened
   /\ now = 0
   /\ \E rate \in Rates, o \in {x \in ScrubOptionsSet : x.minStutter = 0} :
         ScrubQueueInit(0, 0, 0, rate, o)
   /\ transformerAt = "out"
   /\ lastCall = NoCall
   /\ tracks = [playback |-> TRUE, capture |-> FALSE, scrub |-> TRUE,
                midi |-> FALSE]
   /\ mT0 = 0
   /\ mT1 = 0
   /\ mTime = << 0, 1 >>
   /\ mPlayMode = "PLAY_SCRUB"
   /\ startTime = 0
   /\ NoPlay
   /\ NoRecording

PauseInit == OverdubInit \/ ScrubPauseInit

PauseNext ==
   \/ PauseFillBuffers
   \/ PauseStartStreamWait
   \/ PauseEnqueueScrub
   \/ PauseScrubFillBuffers
   \/ PauseTransformerWake
   \/ PauseFillBuffersLoopEnd
   \/ RecStartStream
   \/ PlaySetPaused
   \/ SeekStream
   \/ PauseCallback
   \/ CallbackDoSeekReload

PauseSpec == PauseInit /\ [][PauseNext]_vars

\* StartStream has opened the MIDI stream for the note track, prepared the
\* iterator and started the audio stream
MidiInit ==
   /\ mainAt = "idle"
   /\ tracks = [playback |-> FALSE, capture |-> FALSE, scrub |-> FALSE,
                midi |-> TRUE]
   /\ mStreamToken = 1
   /\ mNextStreamToken = 1
   /\ returned = << 1 >>
   /\ stopCompleted = FALSE
   /\ mPortStreamV19 = "active"
   /\ ringBuffers = "none"
   /\ captured = "none"
   /\ abortJoins = TRUE
   /\ mMidiStream = TRUE
   /\ mMidiStreamActive = TRUE
   /\ mMidiThreadFillBuffersLoopRunning = TRUE
   /\ mMidiThreadFillBuffersLoopActive = FALSE
   /\ audioAt = "top"
   /\ mAudioThreadFillBuffersLoopActive = FALSE
   /\ callbackAt = "idle"
   /\ seekToken = 0
   /\ mUpdatingMeters = FALSE
   /\ mSeek = FALSE
   /\ mPaused = FALSE
   /\ mUpdateMeters = TRUE
   /\ mSuspendAudioThread = "free"
   /\ mAudioThreadShouldCallFillBuffersOnce = FALSE
   /\ mAudioThreadFillBuffersLoopRunning = TRUE
   /\ NoQueue
   /\ \E t0 \in 0 .. MaxMidiTime, t1 \in 0 .. MaxMidiTime :
         /\ t0 < t1
         /\ mT0 = t0
         /\ mT1 = t1
         /\ mTime = t0
         /\ startTime = t0
   /\ mPlayMode \in {"PLAY_STRAIGHT", "PLAY_LOOPED"}
   /\ elapsedSum = 0
   /\ scheduleOp = "Init"
   /\ mTimeTrack = FALSE
   /\ NoUpdate
   /\ NoPlay
   /\ NoRecording
   /\ NoFrames
   /\ NoCalls
   /\ NoAlloc
   /\ NoRing
   /\ doSeek = NoDoSeek
   /\ NoMidiRun
   /\ NoFill
   /\ NoClock
   /\ handleWait = FALSE
   /\ noteTrack \in NoteTracks
   /\ trackAudible \in BOOLEAN
   /\ mMidiPaused = FALSE
   /\ mMidiOutputComplete = FALSE
   /\ pauseCount = 0
   /\ LET M == PrepareMidiIterator(
                  [it |-> NoIterator, ev |-> NullEvent, time |-> 0,
                   isOn |-> FALSE, passes |-> 0, pending |-> << >>,
                   out |-> << >>], TRUE, 0)
      IN  /\ mIterator = M.it
          /\ mNextEvent = M.ev
          /\ mNextEventTime = M.time
          /\ mNextIsNoteOn = M.isOn
          /\ mMidiLoopPasses = M.passes
          /\ mPendingNotesOff = M.pending
          /\ midiOut = M.out

MidiNext ==
   \/ MidiThreadBegin
   \/ MidiThreadFill
   \/ MidiCallback
   \/ MidiSetPaused
   \/ MidiSetAudible
   \/ MidiStopStream
   \/ MidiStopStreamClose

MidiSpec == MidiInit /\ [][MidiNext]_vars

\* StartStream has opened the audio stream and set the sizes of the buffers
\* for the rate and the tracks; a scrub produces less at a time
AllocInit ==
   /\ mainAt = "startAlloc"
   /\ tracks \in AllocTrackSets
   /\ mStreamToken = -1
   /\ mNextStreamToken = 0
   /\ returned = << >>
   /\ stopCompleted = FALSE
   /\ mPortStreamV19 = "stopped"
   /\ ringBuffers = "none"
   /\ captured = "none"
   /\ mMidiStream = FALSE
   /\ mMidiStreamActive = FALSE
   /\ mMidiThreadFillBuffersLoopRunning = FALSE
   /\ mMidiThreadFillBuffersLoopActive = FALSE
   /\ audioAt = "top"
   /\ mAudioThreadFillBuffersLoopActive = FALSE
   /\ callbackAt = "idle"
   /\ seekToken = 0
   /\ mUpdatingMeters = FALSE
   /\ mSeek = FALSE
   /\ mPaused = FALSE
   /\ mUpdateMeters = TRUE
   /\ mSuspendAudioThread = "free"
   /\ mAudioThreadShouldCallFillBuffersOnce = FALSE
   /\ mAudioThreadFillBuffersLoopRunning = FALSE
   /\ abortJoins = TRUE
   /\ NoQueue
   /\ NoSchedule
   /\ mTimeTrack = FALSE
   /\ NoUpdate
   /\ NoPlay
   /\ NoRecording
   /\ NoFrames
   /\ NoCalls
   /\ NoMidiOut
   /\ NoRing
   /\ doSeek = NoDoSeek
   /\ NoMidiRun
   /\ NoFill
   /\ NoClock
   /\ handleWait = FALSE
   /\ streamRate \in AllocRates
   /\ mPlaybackSamplesToCopy
         = IF tracks.scrub THEN streamRate ELSE 4 * streamRate
   /\ mPlaybackRingBufferSecs = << 10, 1 >>
   /\ mCaptureRingBufferSecs
         = << 9 + (IF tracks.capture THEN NumCapture ELSE 0), 2 >>
   /\ mMinCaptureSecsToCopy
         = << 1 + (IF tracks.capture THEN NumCapture ELSE 0), 5 >>
   /\ allocFailures = 0
   /\ startReturn = -1

AllocNext == AllocPlayback \/ AllocCapture \/ AllocCatch

AllocSpec == AllocInit /\ [][AllocNext]_vars

\* the thread that called StartStream runs on
AllocFairSpec == AllocSpec /\ WF_vars(AllocNext)

\* a ring buffer was constructed; nothing else of the program runs
RingInit ==
   /\ Constructed
   /\ abortJoins = TRUE
   /\ NoQueue
   /\ NoSchedule
   /\ NoWork

RingNext == RingPut \/ RingGet

RingSpec == RingInit /\ [][RingNext]_vars

\* StartStream has opened the stream of a play and allocated its buffers,
\* and asks the buffering thread for the first pass; Pa_AbortStream joins
\* the thread of the callback or does not
SeekInit ==
   /\ NoQueue
   /\ mAudioThreadShouldCallFillBuffersOnce = TRUE
   /\ mAudioThreadFillBuffersLoopRunning = FALSE
   /\ mainAt = "startPrime"
   /\ tracks = [playback |-> TRUE, capture |-> FALSE, scrub |-> FALSE,
                midi |-> FALSE]
   /\ mStreamToken = -1
   /\ mNextStreamToken = 0
   /\ returned = << >>
   /\ stopCompleted = FALSE
   /\ mPortStreamV19 = "stopped"
   /\ ringBuffers = "allocated"
   /\ captured = "none"
   /\ abortJoins \in BOOLEAN
   /\ mMidiStream = FALSE
   /\ mMidiStreamActive = FALSE
   /\ mMidiThreadFillBuffersLoopRunning = FALSE
   /\ mMidiThreadFillBuffersLoopActive = FALSE
   /\ audioAt = "top"
   /\ mAudioThreadFillBuffersLoopActive = FALSE
   /\ callbackAt = "idle"
   /\ seekToken = 0
   /\ mUpdatingMeters = FALSE
   /\ mSeek = FALSE
   /\ mPaused = FALSE
   /\ mUpdateMeters = TRUE
   /\ mSuspendAudioThread = "free"
   /\ \E looped \in BOOLEAN :
         mPlayMode = IF looped THEN "PLAY_LOOPED" ELSE "PLAY_STRAIGHT"
   /\ mT0 = 1
   /\ mT1 = MaxTime - 1
   /\ mTime = mT0
   /\ startTime = mT0
   /\ mWarpedLength = mT1 - mT0
   /\ trackFrames = mT1 - mT0
   /\ period = 1
   /\ mixerLeft = trackFrames
   /\ mWarpedTime = 0
   /\ elapsedSum = 0
   /\ scheduleOp = "Init"
   /\ mTimeTrack = FALSE
   /\ NoUpdate
   /\ playAvail = 0
   /\ putTotal = 0
   /\ drainedTotal = 0
   /\ callbackFrames = 0
   /\ underran = FALSE
   /\ lastCallback = NoCallback
   /\ NoRecording
   /\ NoFrames
   /\ NoOther

SeekNext ==
   \/ StartStreamLoop
   \/ StartStreamPa
   \/ AudioLoopTop
   \/ AudioLoopTest
   \/ SeekFillBuffers
   \/ AudioLoopBottom
   \/ SeekStream
   \/ SeekCallback
   \/ DoSeekLock
   \/ DoSeekTime
   \/ DoSeekDiscard
   \/ DoSeekReturn
   \/ StopStream
   \/ StopStreamLock
   \/ StopStreamMeters
   \/ StopStreamAbort
   \/ StopStreamOnce
   \/ StopStreamRelease
   \/ StopStreamEnd

SeekSpec == SeekInit /\ [][SeekNext]_vars

\* a scrub from the priming pass StartStream asks for to the last pass
\* StopStream asks for
NudgeNext ==
   \/ PauseStartStreamWait
   \/ RecStartStream
   \/ PauseEnqueueScrub
   \/ PauseScrubFillBuffers
   \/ PauseTransformerWake
   \/ PauseFillBuffersLoopEnd
   \/ CallbackConsume
   \/ ScrubStopStreamLock
   \/ ScrubStopStreamOnce
   \/ ScrubStopStreamWait
   \/ RecStopStreamEnd

\* a stream that plays two tracks, in any mode, before the first pass of
\* FillBuffers
FillTurnInit ==
   /\ Constructed
   /\ abortJoins = TRUE
   /\ NoQueue
   /\ mT0 = 0
   /\ mT1 = 0
   /\ mTime = 0
   /\ mPlayMode \in PlayModes
   /\ scheduleOp = "Init"
   /\ startTime = 0
   /\ elapsedSum = 0
   /\ NoWork

FillTurnNext == FillTurn

FillTurnSpec == FillTurnInit /\ [][FillTurnNext]_vars

\* a project with one note track, before it is played
MidiRunInit ==
   /\ mainAt = "idle"
   /\ tracks = [playback |-> FALSE, capture |-> FALSE, scrub |-> FALSE,
                midi |-> TRUE]
   /\ mStreamToken = 0
   /\ mNextStreamToken = 0
   /\ returned = << >>
   /\ stopCompleted = FALSE
   /\ mPortStreamV19 = "NULL"
   /\ ringBuffers = "none"
   /\ captured = "none"
   /\ abortJoins = TRUE
   /\ mMidiStream = FALSE
   /\ mMidiStreamActive = FALSE
   /\ mMidiThreadFillBuffersLoopRunning = FALSE
   /\ mMidiThreadFillBuffersLoopActive = FALSE
   /\ audioAt = "top"
   /\ mAudioThreadFillBuffersLoopActive = FALSE
   /\ callbackAt = "idle"
   /\ seekToken = 0
   /\ mUpdatingMeters = FALSE
   /\ mSeek = FALSE
   /\ mPaused = FALSE
   /\ mUpdateMeters = FALSE
   /\ mSuspendAudioThread = "free"
   /\ mAudioThreadShouldCallFillBuffersOnce = FALSE
   /\ mAudioThreadFillBuffersLoopRunning = FALSE
   /\ NoQueue
   /\ mT0 = 0
   /\ mT1 = MaxMidiTime
   /\ mTime = 0
   /\ startTime = 0
   /\ mPlayMode \in {"PLAY_STRAIGHT", "PLAY_LOOPED"}
   /\ elapsedSum = 0
   /\ scheduleOp = "Init"
   /\ mTimeTrack = FALSE
   /\ NoUpdate
   /\ NoPlay
   /\ NoRecording
   /\ NoFrames
   /\ NoCalls
   /\ NoAlloc
   /\ NoRing
   /\ doSeek = NoDoSeek
   /\ NoMidiRun
   /\ NoFill
   /\ NoClock
   /\ handleWait = FALSE
   /\ noteTrack \in NoteTracks
   /\ trackAudible = TRUE
   /\ mIterator = NoIterator
   /\ mNextEvent = NullEvent
   /\ mNextEventTime = 0
   /\ mNextIsNoteOn = FALSE
   /\ mMidiLoopPasses = 0
   /\ mMidiPaused = FALSE
   /\ mPendingNotesOff = << >>
   /\ mMidiOutputComplete = FALSE
   /\ midiOut = << >>
   /\ pauseCount = 0

\* the streams of a note track alone, started and stopped in turn, with the
\* MIDI thread
MidiRunNext ==
   \/ MidiRunStartOpen
   \/ MidiRunStartMidi
   \/ MidiRunStartPa
   \/ MidiCallback
   \/ MidiEntryBegin
   \/ MidiEntryTest
   \/ MidiEntryFill
   \/ MidiEntryEnd
   \/ MidiRunStop
   \/ MidiRunStopClose

MidiRunSpec == MidiRunInit /\ [][MidiRunNext]_vars

\* a project before it is played under ALSA, from some time of a track;
\* the play may be paused from its start
AlsaInit ==
   /\ mainAt = "idle"
   /\ tracks = [playback |-> TRUE, capture |-> FALSE, scrub |-> FALSE,
                midi |-> TRUE]
   /\ mStreamToken = 0
   /\ mNextStreamToken = 0
   /\ returned = << >>
   /\ stopCompleted = FALSE
   /\ mPortStreamV19 = "NULL"
   /\ ringBuffers = "none"
   /\ captured = "none"
   /\ abortJoins = TRUE
   /\ mMidiStream = FALSE
   /\ mMidiStreamActive = FALSE
   /\ mMidiThreadFillBuffersLoopRunning = FALSE
   /\ mMidiThreadFillBuffersLoopActive = FALSE
   /\ audioAt = "top"
   /\ mAudioThreadFillBuffersLoopActive = FALSE
   /\ callbackAt = "idle"
   /\ seekToken = 0
   /\ mUpdatingMeters = FALSE
   /\ mSeek = FALSE
   /\ mPaused \in BOOLEAN
   /\ mUpdateMeters = FALSE
   /\ mSuspendAudioThread = "free"
   /\ mAudioThreadShouldCallFillBuffersOnce = FALSE
   /\ mAudioThreadFillBuffersLoopRunning = FALSE
   /\ NoQueue
   /\ mT0 \in 0 .. 1
   /\ mT1 = MaxTime
   /\ mTime = mT0
   /\ mPlayMode = "PLAY_STRAIGHT"
   /\ scheduleOp = "Init"
   /\ startTime = mT0
   /\ elapsedSum = 0
   /\ NoWork

AlsaNext == AlsaStartStream \/ AlsaCallback

AlsaSpec == AlsaInit /\ [][AlsaNext]_vars

\* a stream that plays, records or does both is running, paused or not,
\* and its meters are updated
MeterInit ==
   /\ mainAt = "idle"
   /\ \E playback \in BOOLEAN, capture \in BOOLEAN :
         /\ playback \/ capture
         /\ tracks = [playback |-> playback, capture |-> capture,
                      scrub |-> FALSE, midi |-> FALSE]
   /\ mStreamToken = 1
   /\ mNextStreamToken = 1
   /\ returned = << 1 >>
   /\ stopCompleted = FALSE
   /\ mPortStreamV19 = "active"
   /\ ringBuffers = "allocated"
   /\ captured = "none"
   /\ abortJoins \in BOOLEAN
   /\ mMidiStream = FALSE
   /\ mMidiStreamActive = FALSE
   /\ mMidiThreadFillBuffersLoopRunning = FALSE
   /\ mMidiThreadFillBuffersLoopActive = FALSE
   /\ audioAt = "top"
   /\ mAudioThreadFillBuffersLoopActive = FALSE
   /\ callbackAt = "idle"
   /\ seekToken = 0
   /\ mUpdatingMeters = FALSE
   /\ mSeek = FALSE
   /\ mPaused \in BOOLEAN
   /\ mUpdateMeters = TRUE
   /\ mSuspendAudioThread = "free"
   /\ mAudioThreadShouldCallFillBuffersOnce = FALSE
   /\ mAudioThreadFillBuffersLoopRunning = TRUE
   /\ NoQueue
   /\ NoSchedule
   /\ NoWork

MeterNext ==
   \/ MeterCallback
   \/ MeterTest
   \/ MeterUpdateDisplay
   \/ MeterLeave
   \/ MeterBody
   \/ AudioLoopTop
   \/ AudioLoopTest
   \/ AudioFillReturn
   \/ AudioLoopBottom
   \/ StopStream
   \/ StopStreamLock
   \/ StopStreamMeters
   \/ StopStreamAbort
   \/ StopStreamOnce
   \/ StopStreamRelease
   \/ StopStreamEnd

MeterSpec == MeterInit /\ [][MeterNext]_vars

\* a scrub without a least stutter
NudgeInit == ScrubInit /\ scrubOptions.minStutter = 0

NudgeSpec == NudgeInit /\ [][NudgeNext]_vars

\* the steps of the buffering thread
NudgeAudioSteps ==
   \/ PauseScrubFillBuffers
   \/ PauseTransformerWake
   \/ PauseFillBuffersLoopEnd

\* the steps of a call of StartStream or StopStream that is under way
NudgeMainSteps ==
   \/ PauseStartStreamWait
   \/ RecStartStream
   \/ ScrubStopStreamOnce
   \/ ScrubStopStreamWait
   \/ RecStopStreamEnd

\* The buffering thread runs, and a thread it has signalled wakes; a call of
\* StartStream or of StopStream goes on, polling between its sleeps. Nothing
\* is assumed of what the UI calls or of the callbacks.
NudgeFairSpec ==
   /\ NudgeSpec
   /\ WF_vars(NudgeAudioSteps)
   /\ WF_vars(NudgeMainSteps)



UpdateSteps ==
   \/ TrackTimeUpdateSolve
   \/ TrackTimeUpdateTest
   \/ TrackTimeUpdateWrap

UpdateNext ==
   \/ TrackTimeUpdateCall
   \/ UpdateSteps

UpdateSpec == UpdateInit /\ [][UpdateNext]_vars

\* the callback, once in TrackTimeUpdate, goes on
UpdateFairSpec == UpdateSpec /\ WF_vars(UpdateSteps)

Dist(a, b) == (b - a + Size) % Size

\* the entries the last call of Producer added
Added ==
   { mEntries[(lastCall.first + k) % Size] :
        k \in 0 .. Dist(lastCall.first, mLeadingIdx) - 1 }

\* the sum of the durations of the first n entries the last call added
RECURSIVE SumDurations(_)
SumDurations(n) ==
   IF n = 0 THEN 0
   ELSE mEntries[(lastCall.first + n - 1) % Size].mDuration
           + SumDurations(n - 1)

ProducerReturned == lastCall.op = "Producer"

\* C1: in every reachable state the indices are in the cyclic order
\* trailing, middle, leading: leading has not caught up with trailing,
\* middle has not passed leading, trailing has not reached middle.
CyclicOrder ==
   /\ Dist(mTrailingIdx, mMiddleIdx) <= Dist(mTrailingIdx, mLeadingIdx)
   /\ mLeadingIdx # mTrailingIdx
   /\ mMiddleIdx # mTrailingIdx

\* all three threads have moved their index and leading has wrapped around
CyclicOrderWitness ==
   /\ mLeadingIdx < mTrailingIdx
   /\ mMiddleIdx > mTrailingIdx + 1

\* the buffering thread is inside FillBuffers
InFillBuffers == audioAt \in {"fillOnce", "fillLoop", "waitOnce", "waitLoop"}

\* C2: once StopStream has released the ring buffers, mixers and resamplers
\* the buffering thread is not inside FillBuffers, neither at the moment of
\* the release nor later, until StartStream allocates them again.
NoFillBuffersAfterRelease == ringBuffers = "releasedByStop" => ~InFillBuffers

\* StopStream has just released the buffers of a running stream, and the
\* buffering thread is testing its flags
ReleaseWitness ==
   /\ ringBuffers = "releasedByStop"
   /\ mainAt = "stopEnd"
   /\ audioAt = "test"
   /\ mStreamToken > 0

\* the main thread is in StopStream, past its tests for an open stream
StopStreamCalled ==
   mainAt \in {"stopLock", "stopMeters", "stopAbort", "stopMidi", "stopOnce",
               "stopWait", "stopEnd"}

\* StopStream has returned and left nothing of the stream
StopStreamDone ==
   /\ mainAt = "idle"
   /\ stopCompleted
   /\ mStreamToken = 0
   /\ mPortStreamV19 = "NULL"
   /\ captured \in {"none", "flushed"}

\* C3: a call of StopStream on an open stream eventually completes, leaving
\* the token 0, the hardware stream closed and the capture tracks flushed.
StopStreamCompletes == StopStreamCalled ~> StopStreamDone

\* the same, for a PortAudio whose Pa_AbortStream does not wait for the
\* callback, or when no seek is pending as StopStream is called
StopStreamCompletesUnlessSeeking ==
   (mainAt = "stopLock" /\ (mSeek => ~abortJoins)) ~> StopStreamDone

\* the values a token can take
TokenValues == -1 .. MaxStarts + 1

\* C4: the tokens returned by StartStream are positive and each is greater
\* than those before; IsAudioTokenActive holds of at most one value, the
\* token issued last, which is the one returned last once StartStream has
\* returned; and of none once StopStream has completed.
TokensIncrease ==
   /\ \A i \in 1 .. Len(returned) : returned[i] > 0
   /\ \A i, j \in 1 .. Len(returned) : i < j => returned[i] < returned[j]
   /\ Cardinality({ t \in TokenValues : IsAudioTokenActive(t) }) <= 1
   /\ \A t \in TokenValues :
         IsAudioTokenActive(t) =>
            /\ t = mNextStreamToken
            /\ mainAt # "startPa" =>
                  (returned # << >> /\ t = returned[Len(returned)])
   /\ stopCompleted => \A t \in TokenValues : ~IsAudioTokenActive(t)

\* a second stream was started, its token was active, and it was stopped
TokensWitness ==
   /\ Len(returned) = 2
   /\ stopCompleted
   /\ mainAt = "idle"

\* C5: a call of Producer on a full ring returns false and changes neither
\* the entries nor the indices nor the time of the last accepted request.
FullRingDrops ==
   [][ (lastCall'.op = "Producer" /\ lastCall'.full)
        => /\ ~lastCall'.result
           /\ UNCHANGED << mEntries, mTrailingIdx, mMiddleIdx, mLeadingIdx,
                           mLastScrubTimeMillis, mLastTransformerTimeMillis,
                           mCredit, mDebt, mNudged >> ]_vars

\* Producer has just been called on a full ring
FullRingWitness == ProducerReturned /\ lastCall.full /\ ~lastCall.result

\* C6 as stated: every entry added by a call of Producer that returned true
\* has a positive duration.
AddedDurationsPositive ==
   (ProducerReturned /\ lastCall.result)
      => \A e \in Added : e.mDuration > 0

\* C6 amended: Producer returns false and adds nothing when the duration it
\* is asked for (the time since the last accepted request) is not positive;
\* a call that returns true has added one or two entries, each of duration
\* >= 0.
AddedDurationsNotNegative ==
   ProducerReturned =>
      /\ lastCall.orig <= 0 => (~lastCall.result /\ Added = {})
      /\ ~lastCall.result => mLeadingIdx = lastCall.first
      /\ lastCall.result =>
            /\ Dist(lastCall.first, mLeadingIdx) \in {1, 2}
            /\ \A e \in Added : e.mDuration >= 0

\* Producer returned true and stored an interval trimmed to duration 0
ZeroDurationWitness ==
   /\ ProducerReturned
   /\ lastCall.result
   /\ mEntries[lastCall.first].mDuration = 0

\* C7: the durations of the entries added by a call of Producer that returned
\* true sum to the duration the call was asked for.
AddedDurationsSumToRequest ==
   (ProducerReturned /\ lastCall.result)
      => SumDurations(Dist(lastCall.first, mLeadingIdx)) = lastCall.orig

\* C8: an entry stored for a request that implied a speed above maxSpeed has
\* a duration >= 0 and covers at most maxSpeed * duration + 1 samples.
FastRequestWithinMaxSpeed ==
   (ProducerReturned /\ lastCall.result /\ lastCall.fast)
      => LET e == mEntries[lastCall.first]
             m == scrubOptions.maxSpeed
         IN  /\ e.mDuration >= 0
             /\ Abs(e.mS1 - e.mS0) * m[2] <= m[1] * e.mDuration + m[2]

\* C9 as stated: the debt is at most the maximum after every Transformer
\* invocation (only Transformer changes mDebt).
DebtBounded == mDebt <= mMaxDebt

\* C9 amended: whenever Transformer has handed work to FillBuffers the debt is
\* at most the maximum; the debt can stay above it only when Transformer
\* discarded all the work in the queue and returned none.
DebtBoundedWhenWorkReturned ==
   transformerAt \in {"holding", "waitNoCheck"} => mDebt <= mMaxDebt

\* Transformer discarded a whole entry to cancel debt and still returned work
DebtWitness ==
   /\ transformerAt = "holding"
   /\ mDebt = mMaxDebt
   /\ \E i \in 0 .. Size - 1 :
         /\ Dist(mTrailingIdx, i) < Dist(mTrailingIdx, mMiddleIdx)
         /\ mEntries[i].mDuration = 0
         /\ scrubOptions.minSpeed[1] = 0
         /\ i # mTrailingIdx

\* the track time is in the range of the schedule
InRange(time) == Min(mT0, mT1) <= time /\ time <= Max(mT0, mT1)

LoopedTimeWraps ==
   (Looping /\ mT0 < mT1 /\ mT0 <= startTime /\ startTime < mT1)
      => /\ mTime = mT0 + ((startTime - mT0 + elapsedSum) % (mT1 - mT0))
         /\ mT0 <= mTime /\ mTime < mT1
         /\ elapsedSum = mT1 - mT0 => mTime = startTime

\* a loop of 0.5 s from 0, played for 1.3 s, is at 0.3 s
LoopedTimeWitness ==
   /\ Looping
   /\ scheduleOp = "TrackTimeUpdate"
   /\ mT0 = 0
   /\ mT1 = 5
   /\ startTime = 0
   /\ elapsedSum = 13
   /\ mTime = 3

InTrackTimeUpdate == updateAt # "idle"

\* C12: TrackTimeUpdate terminates, for every schedule and every elapsed
\* time: a call that has begun returns.
TrackTimeUpdateTerminates == InTrackTimeUpdate ~> ~InTrackTimeUpdate

\* it does, but for looped play without a time track of a range with
\* T0 = T1
TrackTimeUpdateTerminatesUnlessEmptyLoop ==
   (InTrackTimeUpdate /\ (mTimeTrack \/ mT0 # mT1)) ~> ~InTrackTimeUpdate


\* the frames of the range of the schedule, (T1 - T0) * R
RangeFrames == Trunc(mT1 - mT0, period)

\* a straight play of a range of whole frames that the track covers
WholeStraightPlay ==
   /\ PlayingStraight
   /\ ~mTimeTrack
   /\ (mT1 - mT0) % period = 0
   /\ trackFrames >= RangeFrames

\* C13 as stated: in straight playback of [T0, T1] at rate R the buffering
\* thread puts exactly (T1 - T0) * R frames into the playback ring buffer;
\* once unpaused callbacks totalling (T1 - T0) * R frames have run,
\* PassIsComplete() is true, and every later callback drains zero samples
\* and returns paComplete.
StraightPlayCompletes ==
   WholeStraightPlay
      => /\ mWarpedTime = mWarpedLength => putTotal = RangeFrames
         /\ callbackFrames >= RangeFrames => PassIsComplete
         /\ lastCallback.complete
               => /\ lastCallback.len = 0
                  /\ lastCallback.result = "paComplete"

\* C13 amended: FillBuffers never puts more than the whole frames of the
\* range nor more than the track has, and exactly the smaller of the two
\* once the schedule is exhausted; the callbacks take what was put and no
\* more; once unpaused callbacks totalling the frames of the range have
\* run, PassIsComplete() is true; a callback that finds the pass complete
\* returns paComplete exactly when it drained nothing; and it drains
\* nothing and returns paComplete if no callback found the ring buffer
\* short while FillBuffers still had frames of the schedule to produce.
StraightPlayCompletesWithoutUnderrun ==
   (PlayingStraight /\ ~mTimeTrack)
      => /\ putTotal <= RangeFrames
         /\ putTotal <= trackFrames
         /\ mWarpedTime = mWarpedLength
               => putTotal = Min(trackFrames, RangeFrames)
         /\ drainedTotal + playAvail = putTotal
         /\ callbackFrames * period >= mT1 - mT0 => PassIsComplete
         /\ lastCallback.complete
               => (lastCallback.result = "paComplete"
                      <=> lastCallback.len = 0)
         /\ (lastCallback.complete /\ ~underran)
               => /\ lastCallback.len = 0
                  /\ lastCallback.result = "paComplete"

\* a straight play of four frames and more was put and drained whole
\* without an underrun, and the callback after the end returned paComplete
StraightPlayWitness ==
   /\ WholeStraightPlay
   /\ RangeFrames >= 4
   /\ ~underran
   /\ putTotal = RangeFrames
   /\ drainedTotal = RangeFrames
   /\ lastCallback.complete
   /\ lastCallback.len = 0
   /\ lastCallback.result = "paComplete"
   /\ mPortStreamV19 # "active"

\* a recording is under way: its schedule and its tracks are in place
Recording == tracks.capture

\* the whole samples of the latency correction either way
CorrectionSamples == Trunc(Abs(totalCorrection), SamplePeriod)

\* the pass StartStream asks for has been made
Primed == mainAt # "startPrime" \/ ~mAudioThreadShouldCallFillBuffersOnce

CaptureRan == lastCapture.frames > 0

\* C17 as stated: a capture callback of n frames that can take only
\* len < n appends exactly one lost interval of n - len samples' duration,
\* counts n - len lost samples and puts len samples into every capture ring
\* buffer; a callback with len = n appends no lost interval.
DropoutRecorded ==
   CaptureRan
      => /\ lastCapture.lost = lastCapture.frames - lastCapture.len
         /\ lastCapture.intervals =
               IF lastCapture.len < lastCapture.frames
               THEN << lastCapture.frames - lastCapture.len >>
               ELSE << >>

\* C17 amended: the callback counts n - len lost samples and puts len
\* samples into every capture ring buffer; with dropout detection enabled
\* (mDetectDropouts) it appends exactly one lost interval of n - len
\* samples' duration when len < n, and when len = n none, unless upstream
\* detection is enabled too and the driver reports an input overflow, which
\* appends an interval of duration zero; with dropout detection disabled it
\* appends no interval.
DropoutRecordedWhenDetecting ==
   CaptureRan
      => /\ lastCapture.lost = lastCapture.frames - lastCapture.len
         /\ lastCapture.len <= lastCapture.frames
         /\ \A i \in CaptureTracks : captureAvail[i] <= MaxCaptureBuffer
         /\ ~mDetectDropouts => lastCapture.intervals = << >>
         /\ (mDetectDropouts /\ lastCapture.len < lastCapture.frames)
               => lastCapture.intervals
                     = << lastCapture.frames - lastCapture.len >>
         /\ (mDetectDropouts /\ lastCapture.len = lastCapture.frames)
               => \/ lastCapture.intervals = << >>
                  \/ /\ mDetectUpstreamDropouts
                     /\ lastCapture.intervals = << 0 >>

\* with detection enabled a callback of two frames found room for one: one
\* lost interval of one sample, one lost sample
DropoutWitness ==
   /\ mDetectDropouts
   /\ lastCapture.frames = 2
   /\ lastCapture.len = 1
   /\ lastCapture.intervals = << 1 >>
   /\ mLostSamples >= 1
   /\ Len(mLostCaptureIntervals) >= 1
   /\ \E i \in CaptureTracks : captureAvail[i] = MaxCaptureBuffer

\* the pass found the recording exception set and left the capture tracks
\* and their ring buffers alone
ExceptionGuardsCapture ==
   lastPass.exception
      => /\ ~lastPass.worked
         /\ lastPass.took = NoSamples
         /\ lastPass.added = NoSamples

SilenceTwice ==
   /\ Recording
   /\ caught = "priming"
   /\ ~mRecordingException
   /\ silence[1] = 2 * CorrectionSamples
   /\ CorrectionSamples > 0

PausedCallbackStep == mPaused /\ mNumFrames' # mNumFrames

\* C20: a callback that finds the stream paused returns paContinue and
\* leaves the track time, the contents of the playback and of the capture
\* ring buffers, the pending seek and the scrub queue with its indices as
\* they were; the frame counter and the pause-frame counter advance by the
\* frames of the callback and the offset of the clocks is taken anew
PausedCallbackLeaves ==
   [][PausedCallbackStep =>
         /\ UNCHANGED << mTime, playAvail, captureAvail, mSeek, mEntries,
                         mTrailingIdx, mMiddleIdx, mLeadingIdx >>
         /\ lastCallback'.paused
         /\ lastCallback'.result = "paContinue"
         /\ mPortStreamV19' = "active"
         /\ callbackAt' = "idle"
         /\ mNumFrames' > mNumFrames
         /\ mNumPauseFrames' - mNumPauseFrames = mNumFrames' - mNumFrames
         /\ mSystemMinusAudioTime' \in 0 .. MaxClockOffset]_vars

\* a paused callback has left samples in both ring buffers and a seek
\* pending, after a callback that was not paused
PausedCallbackWitness ==
   /\ lastCallback.paused
   /\ mPaused
   /\ mNumPauseFrames > 0
   /\ mNumPauseFrames < mNumFrames
   /\ playAvail > 0
   /\ \A i \in CaptureTracks : captureAvail[i] > 0
   /\ mSeek

\* a paused callback has left an entry of the scrub queue that is not
\* played to its end
PausedScrub ==
   /\ lastCallback.paused
   /\ mPaused
   /\ tracks.scrub
   /\ mNumPauseFrames > 0
   /\ mEntries[mTrailingIdx].mPlayed < mEntries[mTrailingIdx].mDuration

\* C21: ClampTrackTime(T) lies between T0 and T1 whichever is the smaller,
\* and it is T when T lies between them
ClampInBounds ==
   IF callOp = "ClampTrackTime"
   THEN /\ mT0 < mT1 => (mT0 <= callResult /\ callResult <= mT1)
        /\ mT0 > mT1 => (mT1 <= callResult /\ callResult <= mT0)
        /\ InRange(callArg) => callResult = callArg
   ELSE TRUE

\* ClampTrackTime was called in a reversed schedule with a time inside the
\* range and, in a forward one, with a time beyond its end
ClampWitness ==
   /\ callOp = "ClampTrackTime"
   /\ \/ mT1 < mT0 /\ mT1 < callArg /\ callArg < mT0
      \/ mT0 < mT1 /\ callArg > mT1 /\ callResult = mT1

\* C22 as stated: PassIsComplete is false in a scrub, and else true exactly
\* when the track time has reached T1 in a forward schedule, T0 in a
\* reversed one
PassCompleteAtT0WhenReversed ==
   IF callOp = "PassIsComplete"
   THEN callResult = (/\ ~Scrubbing
                      /\ IF ReversedTime THEN callArg <= mT0
                         ELSE callArg >= mT1)
   ELSE TRUE

\* C22: PassIsComplete is false in a scrub, and else true exactly when the
\* track time has reached T1 in the direction of the play: at least T1 in a
\* forward schedule, at most T1 in a reversed one
PassCompleteAtT1 ==
   IF callOp = "PassIsComplete"
   THEN callResult = (/\ ~Scrubbing
                      /\ IF ReversedTime THEN callArg <= mT1
                         ELSE callArg >= mT1)
   ELSE TRUE

\* PassIsComplete was called at the end of a reversed play that is not a
\* scrub
ReversedPassWitness ==
   /\ callOp = "PassIsComplete"
   /\ ReversedTime
   /\ ~Scrubbing
   /\ callArg < mT0
   /\ callArg <= mT1
   /\ callResult = TRUE


\* the note i of the track begins within the range of the play
InPass(i) == mT0 <= noteTrack[i].time /\ noteTrack[i].time < mT1

\* the positions of midiOut at which the note-on of the note i was written
\* in the loop pass k
NoteOns(i, k) ==
   {p \in 1 .. Len(midiOut) :
      /\ midiOut[p].kind = "on"
      /\ midiOut[p].index = i
      /\ midiOut[p].pass = k}

\* C23: in a looped play of a note track that is heard, in every loop pass
\* k that has ended each event with a time in [T0, T1) was output exactly
\* once, at its time plus k * (T1 - T0); each wraparound has sent
\* all-notes-off and added one to the counter of the passes
EachEventOncePerPass ==
   (Looping /\ trackAudible) =>
      /\ \A k \in 0 .. mMidiLoopPasses - 1, i \in 1 .. Len(noteTrack) :
            InPass(i) =>
               /\ Cardinality(NoteOns(i, k)) = 1
               /\ \A p \in NoteOns(i, k) :
                     midiOut[p].time
                        = noteTrack[i].time + k * (mT1 - mT0)
      /\ \A k \in 1 .. mMidiLoopPasses :
            \E p \in 1 .. Len(midiOut) :
               /\ midiOut[p].kind = "control"
               /\ midiOut[p].from = "loop"
               /\ midiOut[p].pass = k - 1

\* after the message at p, a note-off of its channel and pitch or the
\* controller message all-notes-off of its channel was written
TurnedOff(p) ==
   \E q \in p + 1 .. Len(midiOut) :
      /\ midiOut[q].chan = midiOut[p].chan
      /\ \/ midiOut[q].kind = "control"
         \/ midiOut[q].kind = "off" /\ midiOut[q].pitch = midiOut[p].pitch

\* the note-off of the note-on at p, or the end of the pass, is still to
\* come from the iterator
ToTurnOff(p) ==
   \/ mNextEvent = gAllNotesOff
   \/ /\ midiOut[p].pass = mMidiLoopPasses
      /\ \/ mIterator.live /\ midiOut[p].index \in mIterator.offs
         \/ /\ mNextEvent = [kind |-> "event", index |-> midiOut[p].index]
            /\ ~mNextIsNoteOn

\* C24: every note-on written to the MIDI stream is followed, once
\* StopStream has closed the stream at the latest, by a note-off of its
\* channel and pitch or by all-notes-off on its channel; while the stream
\* is open a note-on not yet followed has its note-off waiting in the
\* iterator, which is sent whether or not the track is heard by then
NoteOnsTurnedOff ==
   \A p \in 1 .. Len(midiOut) :
      midiOut[p].kind = "on" =>
         \/ TurnedOff(p)
         \/ mMidiStream /\ ToTurnOff(p)

\* StopStream has closed a stream in which a note was sounding, and a
\* note-off of an event was written for a track that is muted
NoteOffWitness ==
   /\ ~mMidiStream
   /\ ~trackAudible
   /\ \E p \in 1 .. Len(midiOut) :
         /\ midiOut[p].kind = "on"
         /\ \A q \in p + 1 .. Len(midiOut) :
               (midiOut[q].kind = "off" /\ midiOut[q].chan = midiOut[p].chan
                   /\ midiOut[q].pitch = midiOut[p].pitch)
                  => midiOut[q].from = "stop"
   /\ \E p \in 1 .. Len(midiOut) :
         midiOut[p].kind = "off" /\ midiOut[p].from = "event"


\* the number of times all-notes-off was sent for a pause
PauseOffs ==
   Cardinality({p \in 1 .. Len(midiOut) :
                   /\ midiOut[p].kind = "control"
                   /\ midiOut[p].from = "pause"
                   /\ midiOut[p].chan = 0})

\* all-notes-off was sent exactly once for each transition from running to
\* paused, as soon as the pause is over or the synchronizer has seen it
OncePerPause == (~mPaused \/ mMidiPaused) => PauseOffs = pauseCount

\* the MIDI thread calls FillMidiBuffers and finds the stream paused
PausedFillStep ==
   /\ mMidiThreadFillBuffersLoopActive
   /\ ~mMidiThreadFillBuffersLoopActive'
   /\ mMidiThreadFillBuffersLoopRunning
   /\ mNumFrames > 0
   /\ mPaused

\* C25: a FillMidiBuffers that finds the stream paused outputs no event of
\* the track; it sends all-notes-off (a note-off for each note-on not yet
\* paired and one controller message to each of the 16 channels) if it is
\* the first to find the stream paused since one found it running, and
\* nothing otherwise; all-notes-off is never sent more often than the
\* stream was paused
OncePerPauseSeen ==
   [][/\ PauseOffs' <= pauseCount'
      /\ PausedFillStep =>
            /\ mMidiPaused'
            /\ UNCHANGED << mIterator, mNextEvent, mNextEventTime,
                            mMidiLoopPasses, mMidiOutputComplete >>
            /\ IF mMidiPaused THEN UNCHANGED << midiOut, mPendingNotesOff >>
               ELSE /\ mPendingNotesOff' = << >>
                    /\ Len(midiOut')
                          = Len(midiOut) + Len(mPendingNotesOff)
                               + NumChannels
                    /\ \A p \in 1 .. Len(midiOut) : midiOut'[p] = midiOut[p]
                    /\ \A p \in Len(midiOut) + 1 .. Len(midiOut') :
                          midiOut'[p].from = "pause"
                    /\ \A chan \in 0 .. NumChannels - 1 :
                          midiOut'[Len(midiOut') - NumChannels + chan + 1]
                             = Message("control", chan, 0, 0, 0,
                                       mMidiLoopPasses, "pause")]_vars

\* the stream is paused for the second time while a note sounded, each
\* pause was seen and has sent all-notes-off once, and callbacks have run
\* since
PausesWitness ==
   /\ mPaused
   /\ mMidiPaused
   /\ pauseCount = MaxPauses
   /\ PauseOffs = pauseCount
   /\ mNumPauseFrames > 1
   /\ \E p \in 1 .. Len(midiOut) :
         midiOut[p].kind = "off" /\ midiOut[p].from = "pause"


\* the latest the clock of the output may read: the time of the last
\* callback, less the time paused, and the largest offset
LatestRealTime == AudioTime - PauseTime + MaxClockOffset

\* C26: while the stream is running, MIDI output-complete is signalled only
\* in straight play and only once the clock of the output is the settle
\* delay or more past T1
CompleteOnlyAfterSettle ==
   (mMidiStreamActive /\ mMidiOutputComplete) =>
      /\ PlayingStraight
      /\ LatestRealTime >= mT1 + loopDelay


\* the double b is half the double a
IsHalf(a, b) == 2 * b[1] * a[2] = a[1] * b[2]

\* an allocation has failed and a size the stream allocates buffers with
\* is below 100 samples
BelowFloor ==
   /\ allocFailures > 0
   /\ \/ PlaybackBufferSize(mPlaybackRingBufferSecs) < MinBufferSize
      \/ mPlaybackSamplesToCopy < MinBufferSize
      \/ tracks.capture
            /\ CaptureBufferSize(mCaptureRingBufferSecs) < MinBufferSize

\* C27: the loop of StartStream that allocates ends; every failure of an
\* allocation halves the sizes for playback and for capture; once the
\* halving has left a size below 100 samples StartStream gives up; and when
\* it gives up it returns 0 and leaves the token 0, the hardware stream
\* closed and no buffers
AllocationLoopEnds ==
   /\ <>(mainAt \in {"idle", "startPrime"})
   /\ [][mainAt = "startAllocCatch" =>
            /\ IsHalf(mPlaybackRingBufferSecs, mPlaybackRingBufferSecs')
            /\ IsHalf(mCaptureRingBufferSecs, mCaptureRingBufferSecs')
            /\ 2 * mPlaybackSamplesToCopy' <= mPlaybackSamplesToCopy
            /\ mPlaybackSamplesToCopy < 2 * mPlaybackSamplesToCopy' + 2
            /\ allocFailures' = allocFailures + 1]_vars
   /\ BelowFloor ~> (startReturn = 0)
   /\ [](startReturn = 0 =>
            /\ mainAt = "idle"
            /\ ~IsBusy
            /\ mPortStreamV19 = "NULL"
            /\ ringBuffers \in {"none", "releasedByCleanup"})
   /\ [](mainAt = "startPrime" => ~BelowFloor /\ ringBuffers = "allocated")

\* StartStream has given up after the allocation failed more than once
GaveUpWitness ==
   /\ startReturn = 0
   /\ allocFailures > 2
   /\ mStreamToken = 0
   /\ tracks.playback


\* C28: with one producer that calls Put and one consumer that calls Get
\* and Discard, interleaved in any way, AvailForGet() + AvailForPut() is
\* the capacity in every state, no Put has stored more than AvailForPut()
\* was when it stored, and Get and Discard have returned in all no more
\* than Put has accepted
RingBufferContract ==
   /\ AvailForGet + RingAvailForPut = RingCapacity
   /\ AvailForGet \in 0 .. RingCapacity
   /\ RingAvailForPut \in 0 .. RingCapacity
   /\ lastPut.actual <= lastPut.avail
   /\ lastPut.actual <= lastPut.count
   /\ lastGet.actual <= lastGet.avail
   /\ lastGet.actual <= lastGet.count
   /\ ringGot <= ringPut
   /\ ringPut = writeCursor
   /\ ringGot = readCursor

\* the write cursor has wrapped around the array ahead of the read cursor,
\* the buffer is full after a Put that was truncated, a Discard has
\* returned samples, and a Get is under way that began before that Put
RingWitness ==
   /\ writeCursor > RingCapacity
   /\ Slot(writeCursor) = Slot(readCursor)
   /\ RingAvailForPut = 0
   /\ lastPut.actual > 0
   /\ lastPut.actual < lastPut.count
   /\ lastGet.op = "Discard"
   /\ lastGet.actual > 0
   /\ getAt.at = "copy"
   /\ getAt.op = "Get"
   /\ getAt.seen < AvailForGet


\* CallbackDoSeek is between its wait for the buffering thread and its
\* request for one pass
DoSeekWorks == callbackAt = "seekWork"

\* the step in which CallbackDoSeek returns paContinue
DoSeekReturns == callbackAt = "seekReload" /\ callbackAt' = "idle"

\* while CallbackDoSeek sets the time and the accumulator, repositions the
\* mixers and discards the ring buffers the buffering thread is not inside
\* FillBuffers, and one pass of FillBuffers, the one asked for, runs between
\* the discard and the return, before which the loop does not run
OnePassAfterDiscard ==
   /\ [](DoSeekWorks => ~InFillBuffers)
   /\ [](callbackAt = "seekReload" =>
            /\ doSeek.passes <= 1
            /\ ~mAudioThreadFillBuffersLoopRunning
            /\ doSeek.passes = 1 <=> ~mAudioThreadShouldCallFillBuffersOnce
            /\ InFillBuffers => audioAt = "fillOnce" /\ doSeek.passes = 0)
   /\ [][DoSeekReturns =>
            /\ doSeek.passes = 1
            /\ mAudioThreadFillBuffersLoopRunning'
            /\ mTime' = ClampTrackTime(doSeek.time + doSeek.seek)]_vars

\* C29 as stated: while CallbackDoSeek repositions the mixers, reinitialises
\* the real-time accumulator and discards the playback ring buffers the
\* buffering thread is never inside FillBuffers; exactly one forced pass of
\* FillBuffers runs after the discard and before the loop-running flag is
\* set again; on return the pending seek is 0 and the track time is
\* ClampTrackTime(old track time + seek)
SeekDoneOnReturn ==
   /\ OnePassAfterDiscard
   /\ [][DoSeekReturns => ~mSeek']_vars

\* a step past the clearing of the seek in CallbackDoSeek, and before its
\* return, that changes the pending seek
SeekSetMeanwhile ==
   callbackAt \in {"seekWork", "seekReload"} /\ mSeek' # mSeek

\* C29 amended: the same, but for the pending seek: CallbackDoSeek clears it
\* with the track time, before the discard, and until the return only
\* SeekStream sets it again
SeekClearedBeforeDiscard ==
   /\ OnePassAfterDiscard
   /\ [](DoSeekWorks => mTime = ClampTrackTime(doSeek.time + doSeek.seek))
   /\ [][DoSeekWorks' => ~mSeek' \/ DoSeekWorks]_vars
   /\ [][SeekSetMeanwhile =>
            /\ UNCHANGED << callbackVars, audioVars, loopFlags, mTime,
                            playVars, doSeek >>
            /\ mSeek'
            /\ mainAt = "idle"]_vars

\* CallbackDoSeek is about to return: the pass it asked for has run and
\* filled the ring buffer again, the seek was clamped to the start of the
\* range, and the UI has left another seek in the meantime
SeekWitness ==
   /\ callbackAt = "seekReload"
   /\ ~mAudioThreadShouldCallFillBuffersOnce
   /\ doSeek.passes = 1
   /\ doSeek.time + doSeek.seek < mT0
   /\ doSeek.time > mT0
   /\ mTime = mT0
   /\ playAvail > 0
   /\ mSeek

\* StopStream has run to its end since the callback read the token in
\* CallbackDoSeek, which has not yet taken the mutex
StoppedMeanwhile ==
   /\ callbackAt = "seekLock"
   /\ stopCompleted
   /\ mainAt = "idle"

\* the step CallbackDoSeek takes then
StaleSeekStep == StoppedMeanwhile /\ callbackAt' # callbackAt

\* C30: when StopStream runs to completion between the read of the token in
\* CallbackDoSeek and the taking of the mutex, CallbackDoSeek returns
\* paAbort and leaves the track time, the mixers, the ring buffers and the
\* flags of the buffering thread as they are; past the test of the token it
\* never works on buffers StopStream has released
StaleSeekAborts ==
   /\ [](StoppedMeanwhile =>
            ~TokenKept /\ ringBuffers = "releasedByStop")
   /\ [][StaleSeekStep =>
            /\ UNCHANGED << scheduleVars, playVars, loopFlags, audioVars,
                            mSeek, mSuspendAudioThread, ringBuffers >>
            /\ callbackAt' = "idle"
            /\ doSeek'.result = "paAbort"]_vars
   /\ [](callbackAt \in {"seekPause", "seekWork", "seekReload"} =>
            /\ ringBuffers = "allocated"
            /\ TokenKept
            /\ mSuspendAudioThread = "callback")

\* CallbackDoSeek has returned paAbort after a StopStream that released the
\* buffers while it waited
StaleSeekWitness ==
   /\ callbackAt = "idle"
   /\ doSeek.result = "paAbort"
   /\ stopCompleted
   /\ ringBuffers = "releasedByStop"
   /\ mStreamToken = 0
   /\ seekToken > 0

\* C31: the buffering thread holds the mutex of the scrub queue only inside
\* Transformer, for the bookkeeping of the indices, and never while FillBuffers
\* runs the mixers and writes the playback ring buffers: it is never in a
\* turn of the do-loop of FillBuffers with the locker of an earlier
\* Transformer still alive
MutexOnlyForIndices == transformerAt # "holding"


\* the buffering thread is blocked in the wait of Transformer
BlockedInTransformer == transformerAt \in {"waitCheck", "waitNoCheck"}

\* a step that ends the wait of Transformer
TransformerReleased == BlockedInTransformer /\ ~BlockedInTransformer'

\* a step that ends the wait of Transformer with the queue still empty
ReleasedOnEmpty == TransformerReleased /\ mMiddleIdx = mLeadingIdx

\* the no-work result of Transformer (start = end = duration = -1): the
\* do-loop of FillBuffers is left, middle is where it was and the nudge is
\* taken
NoWorkResult ==
   /\ transformerAt' = "finishing"
   /\ mMiddleIdx' = mMiddleIdx
   /\ ~mNudged'

\* C32: a buffering thread blocked in Transformer on an empty queue stays
\* blocked until Producer has enqueued an entry or Nudge has been called
BlockedUntilNudged ==
   [][TransformerReleased => mNudged \/ mMiddleIdx # mLeadingIdx]_vars

\* C32: released by a nudge with the queue still empty, Transformer returns
\* the no-work result and middle is not advanced
NudgedGivesNoWork == [][ReleasedOnEmpty => NoWorkResult]_vars

\* C32: a blocked buffering thread that has been nudged is eventually released
NudgedIsReleased == (BlockedInTransformer /\ mNudged) ~> ~BlockedInTransformer

\* C32: the wait of StartStream for the priming pass of a scrub ends
PrimingWaitEnds == (mainAt = "startPrime") ~> (mainAt = "idle")

\* C32: the wait of StopStream for the last pass of a scrub ends
FinalWaitEnds == (mainAt = "stopWait") ~> (mainAt = "idle")

\* C32 witness: StopStream is waiting for the last pass, the buffering thread
\* is blocked in Transformer on an empty queue and has been nudged
NudgeWitness ==
   /\ mainAt = "stopWait"
   /\ BlockedInTransformer
   /\ mMiddleIdx = mLeadingIdx
   /\ mNudged

\* C32: a buffering thread blocked in Transformer on an empty queue stays
\* blocked until an entry is enqueued or the queue is nudged; nudged, it is
\* eventually released, with the no-work result and middle where it was when
\* the queue is still empty; and the wait of StartStream for the priming
\* pass and the wait of StopStream for the last pass end
NudgeEndsTheWaits ==
   /\ BlockedUntilNudged
   /\ NudgedGivesNoWork
   /\ NudgedIsReleased
   /\ PrimingWaitEnds
   /\ FinalWaitEnds


\* a step of StopStream that closes the MIDI stream
MidiClosing == mMidiStream /\ ~mMidiStream'

\* the messages of AllNotesOff are the last that were written to the stream
AllNotesOffSent ==
   /\ Len(midiOut) >= NumChannels
   /\ \A k \in 1 .. NumChannels :
         LET msg == midiOut[Len(midiOut) - NumChannels + k]
         IN  msg.kind = "control" /\ msg.from = "stop"

\* what StopStream has done when it closes the MIDI stream
ClosedInOrder ==
   /\ ~mMidiThreadFillBuffersLoopRunning
   /\ ~mMidiThreadFillBuffersLoopActive
   /\ AllNotesOffSent'

\* a step that leaves the MIDI stream closed writes nothing to it
ClosedStaysSilent == ~mMidiStream /\ ~mMidiStream' => midiOut' = midiOut

\* C33: StopStream closes the MIDI stream only after it has cleared the flag
\* of the loop of the MIDI thread, seen the loop inactive and sent the
\* all-notes-off messages; the MIDI thread is never about to run
\* FillMidiBuffers, and nothing is written, while the stream is closed
MidiClosedInOrder ==
   /\ [](midiAt = "fill" => mMidiStream)
   /\ [][MidiClosing => ClosedInOrder]_vars
   /\ [][ClosedStaysSilent]_vars

\* C33 witness: StopStream has closed the MIDI stream of a play whose
\* callbacks have run, and the MIDI thread is in a turn of its loop
MidiClosedWitness ==
   /\ ~mMidiStream
   /\ stopCompleted
   /\ mNumFrames > 0
   /\ midiAt = "test"


\* a step that sets the flag of the loop of the MIDI thread
MidiLoopStarting ==
   ~mMidiThreadFillBuffersLoopRunning /\ mMidiThreadFillBuffersLoopRunning'

\* a step of the MIDI thread that goes on to FillMidiBuffers
MidiFillChosen == midiAt # "fill" /\ midiAt' = "fill"

\* C34: the MIDI thread never runs FillMidiBuffers before a callback of the
\* audio stream that is open has run: the count of the frames is 0, and no
\* callback of the stream has run, when the flag of the loop is set, and the
\* thread goes on to FillMidiBuffers only when it finds the flag set and the
\* count positive
FillsAfterFirstCallback ==
   /\ [](midiAt = "fill" => callbackRan)
   /\ [][MidiLoopStarting => mNumFrames = 0 /\ ~callbackRan]_vars
   /\ [][MidiFillChosen =>
            mMidiThreadFillBuffersLoopRunning /\ mNumFrames > 0]_vars

\* C34 witness: the MIDI thread is about to run FillMidiBuffers for the
\* second stream, whose callback has run
SecondStreamWitness ==
   /\ midiAt = "fill"
   /\ mStreamToken = MaxStarts
   /\ callbackRan


\* C35 as stated: after every turn of the do-loop, in every play mode, all
\* playback ring buffers have received the same number of samples in it
SameCountEveryMode ==
   \A i, j \in 1 .. NumFillTracks : lastTurn.put[i] = lastTurn.put[j]

\* C35, amended: in every play mode but PLAY_STRAIGHT each playback ring
\* buffer receives in a turn of the do-loop the frames asked of the mixers,
\* what its mixer produced and silence for the rest, and the ring buffers
\* stay aligned; in PLAY_STRAIGHT each receives what its mixer produced and
\* no more
PaddedUnlessStraight ==
   /\ \A i \in 1 .. NumFillTracks :
         lastTurn.put[i] =
            IF PlayingStraight THEN lastTurn.processed[i]
            ELSE lastTurn.frames
   /\ ~PlayingStraight =>
         \A i, j \in 1 .. NumFillTracks : ringWritten[i] = ringWritten[j]

\* C35 witness: in a looped play the mixer of the first track produced less
\* than was asked and less than the mixer of the second track
PaddedWitness ==
   /\ Looping
   /\ lastTurn.processed[1] < lastTurn.processed[2]
   /\ lastTurn.processed[2] <= lastTurn.frames
   /\ lastTurn.put[1] = lastTurn.frames


\* the audio time the last callback observed: AudioTime() before it counted
\* its frames
ObservedAudioTime == AlsaAudioTime - mAudioFramesPerBuffer * FramePeriod

\* the audio time estimated from the system time of the last callback
EstimatedAudioTime == systemTime - mSystemMinusAudioTime

\* a callback raises the estimate to the audio time it observes
EstimateRaised ==
   /\ mSystemMinusAudioTime' < mSystemMinusAudioTime + mAudioFramesPerBuffer
   /\ systemTime' - mSystemMinusAudioTime' = AlsaAudioTime

\* a callback changes the offset
OffsetChanged ==
   callbackRan /\ callbackRan' /\
   mSystemMinusAudioTime' # mSystemMinusAudioTime

\* C36: under ALSA, after every callback the audio time estimated from the
\* system time is at least the audio time the callback observed, and a
\* callback that does not raise the estimate changes the offset only by the
\* drift of the frames of the callback before
EstimateNotBelowObserved ==
   /\ [](callbackRan => EstimatedAudioTime >= ObservedAudioTime)
   /\ [][OffsetChanged =>
            \/ EstimateRaised
            \/ mSystemMinusAudioTime' =
                  mSystemMinusAudioTime + mAudioFramesPerBuffer]_vars

\* C36 witness: a callback has left the estimate above the audio time it
\* observed, the offset changed by the drift alone
DriftWitness ==
   /\ callbackRan
   /\ mNumFrames > mAudioFramesPerBuffer
   /\ EstimatedAudioTime > ObservedAudioTime


\* C37: once StopStream has cleared mUpdateMeters and seen mUpdatingMeters
\* false, no callback is in UpdateDisplay of a meter: not while StopStream
\* aborts the stream, nor later. A callback is in UpdateDisplay only while
\* the updates are allowed or StopStream still waits for mUpdatingMeters.
NoUpdateDisplayAfterWait ==
   InUpdateDisplay => mUpdateMeters \/ mainAt = "stopMeters"

\* C37 witness: StopStream is about to abort the stream, and a callback that
\* came to a meter after the wait has found the updates forbidden
MeterSkippedWitness ==
   /\ mainAt = "stopAbort"
   /\ mUpdatingMeters
   /\ callbackAt \in {"inLeave", "outLeave"}


\* what a StartStream that finds the stream busy leaves as it was
BusyStartKeeps ==
   UNCHANGED << tokenVars, tracks, scheduleVars, ringBuffers, captureAvail,
                totalCorrection, mDuration, mPosition, mLatencyCorrected >>

PlayedWithinDuration ==
   \A i \in DOMAIN mEntries :
      /\ 0 <= mEntries[i].mPlayed
      /\ mEntries[i].mPlayed <= mEntries[i].mDuration

\* the time Consumer returns is that of an entry with a duration
ConsumerTimeDefined ==
   CallbackConsume => GetTime(mEntries'[mTrailingIdx'], mRate') # "NaN"

\* C39: every entry of the scrub queue has 0 <= played <= duration, and the
\* trailing entry Consumer computes the track time from has duration > 0, so
\* the time it returns is never 0/0
ConsumerNeverDividesByZero ==
   [][PlayedWithinDuration' /\ ConsumerTimeDefined]_vars


(***************************************************************************)
(* StartStream when a monitoring stream is open.                           *)
(***************************************************************************)
\* the tracks of a stream without a scrub and without MIDI
PlainTrackSets == { t \in TrackSets : ~t.scrub /\ ~t.midi }

\* AudioIO::StartMonitoring: StartPortAudioStream opens the stream with the
\* capture channels of the preferences (the model keeps them with the
\* tracks), and Pa_StartStream starts it or fails, which is only noted
StartMonitoring ==
   /\ mainAt = "idle"
   /\ ~handleWait
   /\ mPortStreamV19 = "NULL"
   /\ mStreamToken = 0
   /\ \E success \in BOOLEAN, err \in {"paNoError", "error"} :
         IF success
         THEN /\ mPortStreamV19' =
                    IF err = "paNoError" THEN "active" ELSE "stopped"
              /\ tracks' = [playback |-> FALSE, capture |-> TRUE,
                            scrub |-> FALSE, midi |-> FALSE]
         ELSE UNCHANGED << mPortStreamV19, tracks >>
   /\ mUpdateMeters' = TRUE
   /\ UNCHANGED << mainAt, mSuspendAudioThread, tokenVars, ringBuffers,
                   captured, abortJoins, midiVars, audioVars, callbackVars,
                   mSeek, mPaused, loopFlags, scrubVars, scheduleVars,
                   updateVars, playVars, recVars, pauseVars, callVars,
                   midiOutVars, allocVars, ringVars, doSeek, midiRunVars,
                   fillVars, clockVars, handleWait >>

\* the rest of the state for the steps of StartStream about the handle
handleRest ==
   << mSuspendAudioThread, mNextStreamToken, returned, ringBuffers, captured,
      abortJoins, midiVars, audioVars, callbackVars, mPaused, mUpdateMeters,
      loopFlags, scrubVars, scheduleVars, updateVars, playVars, recVars,
      pauseVars, callVars, midiOutVars, allocVars, ringVars, doSeek,
      midiRunVars, fillVars, clockVars >>

\* AudioIO::StartStream finds the engine not busy and a stream open: it takes
\* the token -1 and calls StopStream, which returns at once for a stream
\* that is stopped and else goes on to its locker; then StartStream waits
\* for the handle
StartStreamStopsMonitor ==
   /\ mainAt = "idle"
   /\ ~handleWait
   /\ ~IsBusy
   /\ mPortStreamV19 # "NULL"
   /\ mNextStreamToken < MaxStarts
   /\ mStreamToken' = mStreamToken - 1
   /\ handleWait' = TRUE
   /\ IF Pa_IsStreamStopped /\ ~mMidiStreamActive
      THEN /\ stopCompleted' = TRUE
           /\ UNCHANGED mainAt
      ELSE /\ mainAt' = "stopLock"
           /\ UNCHANGED stopCompleted
   /\ UNCHANGED << handleRest, mPortStreamV19, tracks, mSeek >>

\* the test of the loop in which StartStream waits: while(mPortStreamV19)
HandleCleared == mPortStreamV19 = "NULL"

\* StartStream has waited for the handle: it goes on with the tracks it was
\* given to the opening of the streams
StartStreamHandleCleared ==
   /\ mainAt = "idle"
   /\ handleWait
   /\ HandleCleared
   /\ handleWait' = FALSE
   /\ \E t \in PlainTrackSets : tracks' = t
   /\ mSeek' = FALSE
   /\ stopCompleted' = FALSE
   /\ mainAt' = "startOpen"
   /\ UNCHANGED << handleRest, mStreamToken, mPortStreamV19 >>

\* the UI calls StopStream
StopStreamFromIdle == ~handleWait /\ StopStream

MonitorInit ==
   /\ Constructed
   /\ abortJoins \in BOOLEAN
   /\ NoQueue
   /\ NoSchedule
   /\ NoWork

MonitorMainSteps ==
   \/ StartMonitoring
   \/ StartStreamStopsMonitor
   \/ StartStreamHandleCleared
   \/ StartStreamOpen
   \/ StartStreamAlloc
   \/ StartStreamLoop
   \/ StartStreamPa
   \/ StopStreamFromIdle

MonitorStopSteps ==
   \/ StopStreamLock
   \/ StopStreamMeters
   \/ StopStreamAbort
   \/ StopStreamOnce
   \/ StopStreamRelease
   \/ StopStreamEnd

MonitorAudioSteps ==
   \/ AudioLoopTop
   \/ AudioLoopTest
   \/ AudioFillReturn
   \/ AudioLoopBottom

MonitorCallbackSteps ==
   \/ AudioCallback
   \/ CallbackMeterIn
   \/ CallbackBody
   \/ CallbackMeterOut

MonitorNext ==
   \/ MonitorMainSteps
   \/ MonitorStopSteps
   \/ MonitorAudioSteps
   \/ MonitorCallbackSteps

MonitorSpec == MonitorInit /\ [][MonitorNext]_vars

\* The threads are scheduled fairly: a call of StopStream goes on and its
\* waits end when their flags are clear again and again, the callback and
\* the buffering thread run, and StartStream leaves its wait for the handle
\* when it finds the handle cleared. Nothing is assumed of what the UI
\* calls.
MonitorFairSpec ==
   /\ MonitorSpec
   /\ SF_vars(MonitorStopSteps)
   /\ WF_vars(MonitorAudioSteps)
   /\ SF_vars(MonitorCallbackSteps)
   /\ WF_vars(StartStreamHandleCleared)

\* C40: whenever StartStream has called StopStream for a monitoring stream,
\* running or never started, and waits for the handle of the stream to be
\* cleared, the wait ends
HandleWaitEnds == handleWait ~> ~handleWait

\* the wait of StartStream for the handle of a stream that was running when
\* StartStream called StopStream ends
RunningHandleWaitEnds ==
   (handleWait /\ mainAt = "stopLock") ~> ~handleWait

====
